---- MODULE Spec2Model ----
(***************************************************************************)
(* Video relay of the ROV software: the bounded frame queue                *)
(* (video-processor/src/back_pressure_queue.py), the MPEG-TS client's      *)
(* receive loop (video-processor/src/mpegts/mpegts_client.py) and the      *)
(* MPEG-TS server's encoder writer (video-processor/src/mpegts/            *)
(* mpegts_server.py).                                                      *)
(***************************************************************************)
EXTENDS Integers, Sequences, FiniteSets, TLC

(***************************************************************************)
(* Bounds of the model.                                                    *)
(***************************************************************************)
\* largest max_queue_size a BackpressureQueue is constructed with
MaxCapacity == 3
\* number of put() calls the producer thread makes
MaxPuts == 6
\* largest max_consecutive_failures a client is configured with
MaxFailuresCfg == 3
\* largest max_frame_errors a client is configured with
MaxFrameErrorsCfg == 2
\* refused TCP connects the source answers with before it accepts
MaxConnectRetries == 2
\* the jitter of a reconnect delay is drawn in steps of this many milliseconds
JitterStepMs == 10
\* websocket clients that may connect to one broadcaster
MaxClients == 3
\* chunks the encoder writes to its stdout
MaxChunks == 1
\* add() calls on an aggregator fed at uneven spacing
MaxAdds == 4
\* add() calls on an aggregator fed at a fixed rate
MaxRateAdds == 8
\* snapshots the telemetry receiver hands in
MaxSnapshots == 3
\* measurements in the sequence a Kalman filter is fed with
MaxKalmanInputs == 3
\* iterations of the publish loop
MaxTicks == 1
\* start() calls on a client after the first
MaxRestarts == 1
\* chunks the encoder writes where the order of the chunks is observed
MaxOrderChunks == 2

\* records the simulator sends on the telemetry connection
MaxRecords == 2

\* bytes of the longest pickle of a record
MaxBody == 2
\* flush() calls on an aggregator
MaxFlushes == 2
\* add() calls on an aggregator that is also flushed
MaxFlushAdds == 4
\* the spacing of the timestamps of the samples added to such an aggregator
SteadyStepMs == 40

(***************************************************************************)
(* BackpressureQueue: state.                                               *)
(*   max_queue_size  the maxsize given to queue.Queue                      *)
(*   queue           the items of self.queue, oldest first                 *)
(*   dropped_frames  self.dropped_frames                                   *)
(*   put_pc          where the producer thread stands inside put()         *)
(*   put_item        the item of the put() in progress                     *)
(*   dropped_count   the local dropped_count of the put() in progress      *)
(* Observers (no program state; they record what the calls did):           *)
(*   next_item       items are numbered 1, 2, 3, ... in the order of put   *)
(*   puts_completed  put() calls that have returned                        *)
(*   gets_returned   items returned by get()                               *)
(*   last_get        the item the latest get() returned, Empty if it       *)
(*                   raised queue.Empty                                    *)
(*   put_start       the queue and dropped_frames the latest put() found,  *)
(*                   and whether its first put_nowait raised queue.Full    *)
(*   get_during_put  a get() dequeued while the latest put() was running   *)
(*   full_put        after a put(x) that found the queue full: x, until    *)
(*                   the next get() returns                                *)
(*   next_get        <<x, g, e>>: the get() that followed such a put(x)    *)
(*                   returned g; e: a later put() had evicted x by then    *)
(*   full_put_evicted  a later put() has evicted the item of full_put      *)
(***************************************************************************)
VARIABLES max_queue_size, queue, dropped_frames, put_pc, put_item, dropped_count,
          next_item, puts_completed, gets_returned, last_get,
          put_start, get_during_put, full_put, next_get, full_put_evicted

qvars == <<max_queue_size, queue, dropped_frames, put_pc, put_item, dropped_count,
           next_item, puts_completed, gets_returned, last_get,
           put_start, get_during_put, full_put, next_get, full_put_evicted>>

(***************************************************************************)
(* MPEGTSClient: state.                                                    *)
(*   running, network_type, max_frame_errors, base_delay_ms, max_delay_ms, *)
(*   max_consecutive_failures, extended_cooldown_ms: the attributes of the *)
(*                   same names; frame_size_ok: get_frame_size() > 0       *)
(*   rx_pc           where the thread of receive_mpegts_stream stands      *)
(*   client_socket   the local client_socket: "none", "open" or "closed"   *)
(*   lock            holder of self.lock: "free", "rx" or "fwd"            *)
(*   decoder_procs   the decoder child processes started so far            *)
(*   decoder_ffmpeg_process  self.decoder_ffmpeg_process: an index into    *)
(*                   decoder_procs, or NoProcess                           *)
(*   decoder_ffmpeg_alive    self.decoder_ffmpeg_alive                     *)
(*   frame_counter   self.frame_counter, Unset while the attribute does    *)
(*                   not exist                                             *)
(*   fwd_pc          where the thread of forward_to_ffmpeg stands          *)
(*   fwd_proc        the decoder_ffmpeg_process argument of that thread    *)
(*   fwd_socket      the client_socket argument of that thread: "none",    *)
(*                   "open" or "closed"                                    *)
(*   consecutive_failures, current_delay, frame_errors: the locals         *)
(*   connect_retries refused TCP connects so far                           *)
(*   restarts        start() calls after the first                         *)
(* Observers:                                                              *)
(*   sleeps          the time.sleep calls of the receive thread, in order  *)
(*   frames_parsed   frames _parse_frame has returned                      *)
(*   last_read       what the latest _read_frame_data found                *)
(***************************************************************************)
VARIABLES running, network_type, max_consecutive_failures, max_frame_errors,
          base_delay_ms, max_delay_ms, extended_cooldown_ms, frame_size_ok,
          rx_pc, client_socket, lock, decoder_procs, decoder_ffmpeg_process,
          decoder_ffmpeg_alive, frame_counter, fwd_pc, fwd_proc, fwd_socket,
          consecutive_failures, current_delay, frame_errors, connect_retries,
          sleeps, frames_parsed, last_read, restarts

cfgvars == <<network_type, max_consecutive_failures, max_frame_errors,
             base_delay_ms, max_delay_ms, extended_cooldown_ms, frame_size_ok>>

cvars == <<running, cfgvars,
           rx_pc, client_socket, lock, decoder_procs, decoder_ffmpeg_process,
           decoder_ffmpeg_alive, frame_counter, fwd_pc, fwd_proc, fwd_socket,
           consecutive_failures, current_delay, frame_errors, connect_retries,
           sleeps, frames_parsed, last_read, restarts>>

(***************************************************************************)
(* MPEGTSServer: state.                                                    *)
(*   server_running  self.running of the server                            *)
(*   server_lock     holder of the server's self.lock                      *)
(*   srv_pc          where the thread of _run_ffmpeg stands                *)
(*   encoder_procs   the encoder child processes started so far            *)
(*   encoder_ffmpeg_process  self.encoder_ffmpeg_process: an index into    *)
(*                   encoder_procs, or NoProcess                           *)
(*   w_pc            where the thread of _write_frames stands              *)
(*   w_frame         the frame _write_frames has dequeued                  *)
(*   frames_sent     the local frames_sent of _write_frames                *)
(* Observers:                                                              *)
(*   written         the frames written to the encoder's stdin, in order   *)
(*   skipped         the frames dropped because stdin was not ready        *)
(***************************************************************************)
VARIABLES server_running, server_lock, srv_pc, encoder_procs,
          encoder_ffmpeg_process, w_pc, w_frame, frames_sent, written, skipped

svars == <<server_running, server_lock, srv_pc, encoder_procs,
           encoder_ffmpeg_process, w_pc, w_frame, frames_sent, written, skipped>>

(***************************************************************************)
(* MPEGTSServer._read_stdout and WebSocketBroadcaster: state.              *)
(*   ws_relay_enabled  the server was constructed with a ws_broadcaster    *)
(*   reader_pc       where the thread of _read_stdout stands               *)
(*   chunk           the local chunk of _read_stdout                       *)
(*   ws_running      self.running of the broadcaster                       *)
(*   clients         self.clients                                          *)
(*   client_order    the order in which list(self.clients) yields them     *)
(*   table_fill      slots of the set's table in use, those of discarded   *)
(*                   clients included                                      *)
(*   closed          closed[c]: the attribute closed of client c           *)
(*   send_outcome    how a send to client c ends: it returns ("ok"), it    *)
(*                   raises ("raises"), or it stays pending ("slow")       *)
(*   tasks           the _broadcast_async coroutines scheduled on the      *)
(*                   event loop, in the order of scheduling: data, the     *)
(*                   clients of list(self.clients) not yet served, the     *)
(*                   client whose send is awaited, clients_to_remove, and  *)
(*                   where the coroutine stands                            *)
(*   running_task    the coroutine the event loop is running (an index     *)
(*                   into tasks), or NoTask between two callbacks          *)
(* Observers:                                                              *)
(*   next_chunk      the encoder's output chunks are numbered 1, 2, ...    *)
(*   received        received[c]: the messages client c was sent, in order *)
(*   broadcast_calls the broadcast() calls that have returned              *)
(***************************************************************************)
VARIABLES ws_relay_enabled, reader_pc, chunk, ws_running, clients,
          client_order, table_fill, closed,
          send_outcome, tasks, running_task, next_chunk, received,
          broadcast_calls

bvars == <<ws_relay_enabled, reader_pc, chunk, ws_running, clients,
           client_order, table_fill, closed,
           send_outcome, tasks, running_task, next_chunk, received,
           broadcast_calls>>

(***************************************************************************)
(* TimeWindowAggregator: state.  Timestamps are in milliseconds.           *)
(*   window_duration_ms  self.window_duration_ms                           *)
(*   buffers         self._buffers: sensor_id -> the buffered samples      *)
(*   last_emit       self._last_emit: sensor_id -> timestamp               *)
(* Observers:                                                              *)
(*   emitted         the results handed to emit_callback, in order         *)
(*   adds            the add() calls made                                  *)
(*   sample_period   the spacing of the timestamps of the samples fed in,  *)
(*                   or AnyPeriod                                          *)
(*   clock           the timestamp of the latest sample fed in             *)
(*   last_add        the latest add(): its sample, the samples its sensor  *)
(*                   had buffered before, and whether it emitted           *)
(*   sensor_order    the keys of self._buffers in the order of insertion   *)
(*   added           sensor_id -> the number of its samples added          *)
(*   flushes         the flush() calls made                                *)
(*   last_flush      the latest flush(): its argument, the buffers and the *)
(*                   number of results it found, the adds made before it,  *)
(*                   and whether the call before it was a flush() of all   *)
(***************************************************************************)
VARIABLES window_duration_ms, buffers, last_emit, emitted, adds, sample_period,
          clock, last_add, sensor_order, added, flushes, last_flush

avars == <<window_duration_ms, buffers, last_emit, emitted, adds, sample_period,
           clock, last_add, sensor_order, added, flushes, last_flush>>

(***************************************************************************)
(* TelemetryProcessor: state.                                              *)
(*   high_freq_sensors  self.high_freq_sensors                             *)
(*   filters         self.filters: sensor -> number of Kalman filters      *)
(*   kalman_initialized  _initialized of the sensor's Kalman filter        *)
(*   telemetry_state self.telemetry_state: the latest-state map            *)
(*   tp_pc           where _on_telemetry_received stands                   *)
(*   tp_props        the schema properties the snapshot in hand has still  *)
(*                   to be projected on                                    *)
(*   tp_data         the TelemetryData in hand                             *)
(* Observers:                                                              *)
(*   snapshots       the snapshots received                                *)
(*   pipeline        what was done to which sample, in order               *)
(*   add_calls       the samples aggregator.add was called with            *)
(*   tp_fields       the schema properties the snapshots handed in so far  *)
(*                   had a field for, per snapshot                         *)
(***************************************************************************)
VARIABLES high_freq_sensors, filters, kalman_initialized, telemetry_state, tp_pc,
          tp_props, tp_data, snapshots, pipeline, add_calls, tp_fields

tvars == <<high_freq_sensors, filters, kalman_initialized, telemetry_state, tp_pc,
           tp_props, tp_data, snapshots, pipeline, add_calls, tp_fields>>

(***************************************************************************)
(* TelemetryProcessor.start, _publish_loop and MQTTPublisher: state.       *)
(*   tp_running      self.running of the processor                         *)
(*   main_pc         where the main thread stands in main() and start()    *)
(*   exit_code       the exit code of the process, NoExit while it runs    *)
(*   loop_started    the broker client's network loop was started          *)
(*   connected       self.connected of the publisher                       *)
(*   receiver_running  self.running of the TelemetryReceiver               *)
(*   handler_installed  the SIGINT handler of start() is installed         *)
(*   pp_pc           where the thread of _publish_loop stands              *)
(*   pp_read         the keys _assemble_packet has read so far             *)
(*   pp_packet       the packet in hand                                    *)
(*   since_received  time.time() - self.last_received_time in whole        *)
(*                   seconds, counted up to StaleAfterS + 1                *)
(* Observers:                                                              *)
(*   ticks           the iterations of _publish_loop begun                 *)
(*   pp_missing      the keys the packet in hand found no entry for        *)
(*   publish_calls   the packets publish() was called with, in order, each *)
(*                   with the keys it had found no entry for               *)
(*   handed_to_broker  the packets given to client.publish, in order       *)
(*   validation_logged  the validation errors publish() has logged         *)
(*   signal_received SIGINT was delivered to the installed handler         *)
(*   last_tick       the latest stale check of _publish_loop: the seconds  *)
(*                   since the last receipt and the publish() calls made   *)
(*                   before it                                             *)
(***************************************************************************)
VARIABLES tp_running, main_pc, exit_code, loop_started, connected,
          receiver_running, handler_installed, pp_pc, pp_read, pp_packet,
          pp_missing, ticks, publish_calls, handed_to_broker, validation_logged,
          signal_received, since_received, last_tick

pvars == <<tp_running, main_pc, exit_code, loop_started, connected,
           receiver_running, handler_installed, pp_pc, pp_read, pp_packet,
           pp_missing, ticks, publish_calls, handed_to_broker, validation_logged,
           signal_received, since_received, last_tick>>

\* the processor's variables that the receipt of a snapshot leaves alone
untimed == <<tp_running, main_pc, exit_code, loop_started, connected,
             receiver_running, handler_installed, pp_pc, pp_read, pp_packet,
             pp_missing, ticks, publish_calls, handed_to_broker, validation_logged,
             signal_received, last_tick>>

(***************************************************************************)
(* KalmanFilter: state.  Numbers are exact fractions [n, d].               *)
(*   kf_q, kf_r      self.q, self.r                                        *)
(*   kf_x, kf_p      self.x, self.p                                        *)
(*   kf_initial_estimate, kf_initial_error, kf_initialized: the attributes *)
(*                   _initial_estimate, _initial_error, _initialized       *)
(* Observers:                                                              *)
(*   kf_inputs       the measurements a caller feeds in, twice             *)
(*   kf_run          the run in progress: 1, or 2 after reset()            *)
(*   kf_fed          the measurements of this run fed in so far            *)
(*   kf_outputs      per run, what each apply() gave: the data it returned *)
(*                   or the exception it raised, with self.x after it      *)
(***************************************************************************)
VARIABLES kf_q, kf_r, kf_x, kf_p, kf_initial_estimate, kf_initial_error,
          kf_initialized, kf_inputs, kf_run, kf_fed, kf_outputs

kvars == <<kf_q, kf_r, kf_x, kf_p, kf_initial_estimate, kf_initial_error,
           kf_initialized, kf_inputs, kf_run, kf_fed, kf_outputs>>

(***************************************************************************)
(* The telemetry receiver on a TCP connection (telemetry_receiver.py), fed *)
(* by the telemetry simulator (rov_telemetry_simulator.py).               *)
(*   wire            the bytes the simulator has sent, in order; a byte is *)
(*                   [rec, at, of]: byte number at of record rec, whose   *)
(*                   pickle is of bytes long                               *)
(*   wire_read       how many of them socket.recv has returned            *)
(*   rcv_pc          "recv" / "process": where the receive loop stands    *)
(*   rcv_data        data: what the latest recv returned                  *)
(*   delivered       the records the callback was called with, in order   *)
(*   rcv_incomplete  "Received incomplete data" lines printed             *)
(*   rcv_skipped     "Receive error (skipping packet)" lines printed      *)
(*   whole_records   every recv so far has returned one whole record      *)
(***************************************************************************)
VARIABLES wire, wire_read, rcv_pc, rcv_data, delivered, rcv_incomplete,
          rcv_skipped, whole_records

rvars == <<wire, wire_read, rcv_pc, rcv_data, delivered, rcv_incomplete,
           rcv_skipped, whole_records>>

\* the state of the components of the telemetry processor other than the
\* aggregator and the projection of snapshots
nvars == <<kvars, pvars, rvars>>

\* the state of the components other than the frame queue, the MPEGTS client
\* and the MPEGTS server's encoder and writer
ovars == <<bvars, avars, tvars, nvars>>

vars == <<qvars, cvars, svars, ovars>>

\* what get() yields when it raises queue.Empty
Empty == 0

\* no item: items are numbered from 1, so the value of Empty is free
NoItem == Empty

\* mutant: the queue is taken to be full one item too late
FullOffByOne(q, maxsize) == maxsize > 0 /\ Len(q) > maxsize

\* queue.Queue(maxsize).full(): put_nowait raises queue.Full exactly then
Full(q, maxsize) == maxsize > 0 /\ Len(q) >= maxsize

\* mutant: an evicted item is not counted
CountDroppedNot(n) == n

\* dropped_count += 1 after a successful get_nowait in put()
CountDropped(n) == n + 1

InitQueue ==
    /\ max_queue_size \in 1..MaxCapacity
    /\ queue = <<>>
    /\ dropped_frames = 0
    /\ put_pc = "idle"
    /\ put_item = NoItem
    /\ dropped_count = 0
    /\ next_item = 1
    /\ puts_completed = 0
    /\ gets_returned = 0
    /\ last_get = Empty
    /\ put_start = [queue |-> <<>>, dropped |-> 0, full |-> FALSE]
    /\ get_during_put = FALSE
    /\ full_put = NoItem
    /\ next_get = <<NoItem, NoItem, FALSE>>
    /\ full_put_evicted = FALSE

\* put(), line 19: the first put_nowait(item).  It either admits the item
\* (put returns) or raises queue.Full (put goes on to evict).
PutNowait ==
    /\ put_pc = "idle"
    /\ next_item <= MaxPuts
    /\ next_item' = next_item + 1
    /\ put_item' = next_item
    /\ put_start' = [queue |-> queue, dropped |-> dropped_frames,
                     full |-> Full(queue, max_queue_size)]
    /\ get_during_put' = FALSE
    /\ dropped_count' = 0
    /\ IF Full(queue, max_queue_size)
       THEN /\ put_pc' = "empty_check"
            /\ UNCHANGED <<queue, puts_completed>>
       ELSE /\ put_pc' = "idle"
            /\ queue' = Append(queue, next_item)
            /\ puts_completed' = puts_completed + 1
    /\ UNCHANGED <<max_queue_size, dropped_frames, gets_returned, last_get,
                   full_put, next_get, full_put_evicted>>
    /\ UNCHANGED <<cvars, svars, ovars>>

\* mutant: the eviction stops as soon as there is room for one item
DrainDoneWhenRoom(q) == ~Full(q, max_queue_size)

\* put(), line 23: the eviction loop runs "while not self.queue.empty()"
DrainDone(q) == q = <<>>

\* put(), line 23: while not self.queue.empty()
PutEmptyCheck ==
    /\ put_pc = "empty_check"
    /\ put_pc' = IF DrainDone(queue) THEN "add_dropped" ELSE "get_nowait"
    /\ UNCHANGED <<max_queue_size, queue, dropped_frames, put_item, dropped_count,
                   next_item, puts_completed, gets_returned, last_get,
                   put_start, get_during_put, full_put, next_get, full_put_evicted>>
    /\ UNCHANGED <<cvars, svars, ovars>>

\* put(), lines 24-28: get_nowait() evicts the oldest item and counts it; if the
\* consumer emptied the queue since the empty() check it raises queue.Empty and
\* the loop is left.
PutGetNowait ==
    /\ put_pc = "get_nowait"
    /\ IF queue # <<>>
       THEN /\ queue' = Tail(queue)
            /\ dropped_count' = CountDropped(dropped_count)
            /\ put_pc' = "empty_check"
            /\ full_put_evicted' = (full_put_evicted \/ Head(queue) = full_put)
       ELSE /\ put_pc' = "add_dropped"
            /\ UNCHANGED <<queue, dropped_count, full_put_evicted>>
    /\ UNCHANGED <<max_queue_size, dropped_frames, put_item,
                   next_item, puts_completed, gets_returned, last_get,
                   put_start, get_during_put, full_put, next_get>>
    /\ UNCHANGED <<cvars, svars, ovars>>

\* put(), line 30: self.dropped_frames += dropped_count (lines 31-35 only log)
PutAddDropped ==
    /\ put_pc = "add_dropped"
    /\ dropped_frames' = dropped_frames + dropped_count
    /\ put_pc' = "put_again"
    /\ UNCHANGED <<max_queue_size, queue, put_item, dropped_count,
                   next_item, puts_completed, gets_returned, last_get,
                   put_start, get_during_put, full_put, next_get, full_put_evicted>>
    /\ UNCHANGED <<cvars, svars, ovars>>

\* put(), lines 38-41: the second put_nowait(item); if it raises queue.Full the
\* new item itself is dropped and counted.  put returns.
PutAgain ==
    /\ put_pc = "put_again"
    /\ IF Full(queue, max_queue_size)
       THEN /\ dropped_frames' = dropped_frames + 1
            /\ UNCHANGED <<queue, full_put, full_put_evicted>>
       ELSE /\ queue' = Append(queue, put_item)
            /\ full_put' = put_item
            /\ full_put_evicted' = FALSE
            /\ UNCHANGED dropped_frames
    /\ put_pc' = "idle"
    /\ puts_completed' = puts_completed + 1
    /\ UNCHANGED <<max_queue_size, put_item, dropped_count,
                   next_item, gets_returned, last_get,
                   put_start, get_during_put, next_get>>
    /\ UNCHANGED <<cvars, svars, ovars>>

\* get(), lines 45-46: self.queue.get(timeout) returns the oldest item
GetItem ==
    /\ queue # <<>>
    /\ queue' = Tail(queue)
    /\ last_get' = Head(queue)
    /\ gets_returned' = gets_returned + 1
    /\ get_during_put' = (get_during_put \/ put_pc # "idle")
    /\ IF full_put # NoItem
       THEN /\ next_get' = <<full_put, Head(queue), full_put_evicted>>
            /\ full_put' = NoItem
            /\ full_put_evicted' = FALSE
       ELSE UNCHANGED <<next_get, full_put, full_put_evicted>>
    /\ UNCHANGED <<max_queue_size, dropped_frames, put_pc, put_item, dropped_count,
                   next_item, puts_completed, put_start>>

\* a consumer thread calls get() and is handed an item
Get == GetItem /\ UNCHANGED <<cvars, svars, ovars>>

\* get(), lines 45-46: the queue stayed empty for the whole timeout, so
\* self.queue.get raises queue.Empty
GetNothing ==
    /\ queue = <<>>
    /\ last_get' = Empty
    /\ UNCHANGED <<max_queue_size, queue, dropped_frames, put_pc, put_item,
                   dropped_count, next_item, puts_completed, gets_returned,
                   put_start, get_during_put, full_put, next_get, full_put_evicted>>

\* a consumer thread calls get() and gets queue.Empty
GetEmpty == GetNothing /\ UNCHANGED <<cvars, svars, ovars>>

\* the producer thread's next step inside or into put()
Put == PutNowait \/ PutEmptyCheck \/ PutGetNowait \/ PutAddDropped \/ PutAgain

(***************************************************************************)
(* MPEGTSClient: the receive loop, the forwarder thread, the decoder       *)
(* process.  Times are in milliseconds.                                    *)
(***************************************************************************)

\* resilience_config.get("base_delay_ms", 500)
BaseDelayMs == 500
\* resilience_config.get("max_delay_ms", 30000)
MaxDelayMs == 30000
\* resilience_config.get("extended_cooldown_ms", 60000)
ExtendedCooldownMs == 60000
\* time.sleep(1) between two TCP connects
ConnectRetrySleepMs == 1000

\* the max_delay_ms a client is configured with: below base + jitter, below
\* 2 * base, and the default
MaxDelayChoices == {520, 750, MaxDelayMs}

\* self.decoder_ffmpeg_process is None (getattr's default when it is not set)
NoProcess == 0

\* an attribute that no code of the class or its base assigns
Unset == -1

Min(a, b) == IF a <= b THEN a ELSE b

\* random.uniform(0, 0.1 * current_delay), in steps of JitterStepMs
Jitter(delay) == {j \in 0..(delay \div 10) : j % JitterStepMs = 0}

\* mutant: the doubled delay is not capped
NextDelayUncapped(delay, max_delay) == delay * 2

\* mutant: the delay is not doubled after a failure
NextDelaySame(delay, max_delay) == Min(delay, max_delay)

\* line 260: current_delay = min(current_delay * 2, self.max_delay_ms / 1000.0)
NextDelay(delay, max_delay) == Min(delay * 2, max_delay)

\* mutant: the jitter is added after the cap
ReconnectDelayUncapped(delay, jitter, max_delay) == Min(delay, max_delay) + jitter

\* line 321: delay = min(current_delay + jitter, self.max_delay_ms / 1000.0)
ReconnectDelay(delay, jitter, max_delay) == Min(delay + jitter, max_delay)

\* subprocess.Popen(cmd, stdin=PIPE, stdout=PIPE): a running child with both
\* pipes open
NewProcess == [alive |-> TRUE, stdin_closed |-> FALSE, stdout_eof |-> FALSE]

\* decoder child processes that have not exited
LiveDecoders == {i \in 1..Len(decoder_procs) : decoder_procs[i].alive}

InitClient ==
    /\ running = FALSE
    /\ network_type \in {"tcp", "udp", "none"}
    /\ max_consecutive_failures \in 1..MaxFailuresCfg
    /\ max_frame_errors \in 1..MaxFrameErrorsCfg
    /\ base_delay_ms = BaseDelayMs
    /\ max_delay_ms \in MaxDelayChoices
    /\ extended_cooldown_ms = ExtendedCooldownMs
    /\ frame_size_ok \in BOOLEAN
    /\ rx_pc = "not_started"
    /\ client_socket = "none"
    /\ lock = "free"
    /\ decoder_procs = <<>>
    /\ decoder_ffmpeg_process = NoProcess
    /\ decoder_ffmpeg_alive = FALSE
    /\ frame_counter = Unset
    /\ fwd_pc = "not_started"
    /\ fwd_proc = NoProcess
    /\ fwd_socket = "none"
    /\ restarts = 0
    /\ consecutive_failures = 0
    /\ current_delay = base_delay_ms
    /\ frame_errors = 0
    /\ connect_retries = 0
    /\ sleeps = <<>>
    /\ frames_parsed = 0
    /\ last_read = "none"

\* the variables every step of the receive thread but the start of the
\* forwarder and the closing of the socket leaves alone
rxkept == <<qvars, svars, ovars, cfgvars, restarts, decoder_procs, decoder_ffmpeg_process, decoder_ffmpeg_alive,
            frame_counter, connect_retries, frames_parsed, last_read>>

\* the variables the receive thread's steps usually leave alone
rxrest == <<rxkept, fwd_proc, fwd_socket>>

\* start(): running = True, the receive thread starts (lines 228-230 set its
\* locals)
Start ==
    /\ rx_pc = "not_started"
    /\ running' = TRUE
    /\ rx_pc' = "loop_test"
    /\ consecutive_failures' = 0
    /\ current_delay' = base_delay_ms
    /\ UNCHANGED <<rxrest, client_socket, lock, fwd_pc, frame_errors, sleeps>>

\* start() called again on a client that has not been stopped, when the
\* receive thread of the call before has ended: running = True and a new
\* receive thread starts; nothing else is reset, and a forwarder that is still
\* running is left running
Restart ==
    /\ rx_pc = "crashed"
    /\ running
    /\ restarts < MaxRestarts
    /\ restarts' = restarts + 1
    /\ running' = TRUE
    /\ rx_pc' = "loop_test"
    /\ consecutive_failures' = 0
    /\ current_delay' = base_delay_ms
    /\ UNCHANGED <<qvars, svars, ovars, cfgvars, decoder_procs,
                   decoder_ffmpeg_process, decoder_ffmpeg_alive, frame_counter,
                   connect_retries, frames_parsed, last_read, fwd_proc,
                   fwd_socket, client_socket, lock, fwd_pc, frame_errors, sleeps>>

\* MPEGTSBase.stop(): running = False; cleanup_ffmpeg() then works on
\* self.ffmpeg_process, which a client never sets, so the decoder is untouched
Stop ==
    /\ running
    /\ running' = FALSE
    /\ UNCHANGED <<rxrest, rx_pc, client_socket, lock, fwd_pc,
                   consecutive_failures, current_delay, frame_errors, sleeps>>

\* line 232: while self.running
RxLoopTest ==
    /\ rx_pc = "loop_test"
    /\ IF running
       THEN rx_pc' = "get_socket" /\ client_socket' = "none"
       ELSE rx_pc' = "returned" /\ UNCHANGED client_socket
    /\ UNCHANGED <<rxrest, running, lock, fwd_pc,
                   consecutive_failures, current_delay, frame_errors, sleeps>>

\* _setup_network_socket, lines 265-277: NetworkHandler gives a TCP socket, a
\* UDP socket, or None (RuntimeError)
RxGetSocket ==
    /\ rx_pc = "get_socket"
    /\ rx_pc' = CASE network_type = "tcp" -> "connect"
                  [] network_type = "udp" -> "bind"
                  [] OTHER -> "except"
    /\ UNCHANGED <<rxrest, running, client_socket, lock, fwd_pc,
                   consecutive_failures, current_delay, frame_errors, sleeps>>

\* _setup_network_socket, line 274: bind; an OSError leaves the loop's
\* client_socket None
RxBind ==
    /\ rx_pc = "bind"
    /\ \/ rx_pc' = "check_running" /\ client_socket' = "open"
       \/ rx_pc' = "except" /\ UNCHANGED client_socket
    /\ UNCHANGED <<rxrest, running, lock, fwd_pc,
                   consecutive_failures, current_delay, frame_errors, sleeps>>

\* _setup_network_socket, lines 278-288: connect until connected or stopped,
\* sleeping 1 s after each refusal
RxConnect ==
    /\ rx_pc = "connect"
    /\ IF ~running
       THEN /\ rx_pc' = "check_running" /\ client_socket' = "open"
            /\ UNCHANGED <<connect_retries, sleeps>>
       ELSE \/ /\ rx_pc' = "check_running" /\ client_socket' = "open"
               /\ UNCHANGED <<connect_retries, sleeps>>
            \/ /\ connect_retries < MaxConnectRetries
               /\ connect_retries' = connect_retries + 1
               /\ sleeps' = Append(sleeps, [kind |-> "connect_retry",
                                            ms |-> ConnectRetrySleepMs])
               /\ UNCHANGED <<rx_pc, client_socket>>
    /\ UNCHANGED <<qvars, svars, ovars, cfgvars, restarts, fwd_proc, fwd_socket, decoder_procs, decoder_ffmpeg_process,
                   decoder_ffmpeg_alive, frame_counter, frames_parsed, last_read,
                   running, lock, fwd_pc,
                   consecutive_failures, current_delay, frame_errors>>

\* lines 236-237: if not self.running: break
RxCheckRunning ==
    /\ rx_pc = "check_running"
    /\ rx_pc' = IF running THEN "start_ffmpeg" ELSE "finally"
    /\ UNCHANGED <<rxrest, running, client_socket, lock, fwd_pc,
                   consecutive_failures, current_delay, frame_errors, sleeps>>

\* start_decoder_ffmpeg, line 109: with self.lock
RxStartFfmpegLock ==
    /\ rx_pc = "start_ffmpeg"
    /\ lock = "free"
    /\ lock' = "rx"
    /\ rx_pc' = "start_cleanup"
    /\ UNCHANGED <<rxrest, running, client_socket, fwd_pc,
                   consecutive_failures, current_delay, frame_errors, sleeps>>

\* start_decoder_ffmpeg, lines 112-117: self.cleanup_decoder_ffmpeg() is no
\* method of MPEGTSClient or MPEGTSBase; the AttributeError is caught and logged
RxStartCleanup ==
    /\ rx_pc = "start_cleanup"
    /\ rx_pc' = "popen"
    /\ UNCHANGED <<rxrest, running, client_socket, lock, fwd_pc,
                   consecutive_failures, current_delay, frame_errors, sleeps>>

\* start_decoder_ffmpeg, lines 129-139: Popen; on an exception the pointer is
\* None and the exception goes on to the receive loop
RxPopen ==
    /\ rx_pc = "popen"
    /\ \/ /\ decoder_procs' = Append(decoder_procs, NewProcess)
          /\ decoder_ffmpeg_process' = Len(decoder_procs) + 1
          /\ decoder_ffmpeg_alive' = TRUE
          /\ rx_pc' = "start_forwarder"
       \/ /\ decoder_ffmpeg_process' = NoProcess
          /\ decoder_ffmpeg_alive' = FALSE
          /\ rx_pc' = "except"
          /\ UNCHANGED decoder_procs
    /\ lock' = "free"
    /\ UNCHANGED <<qvars, svars, ovars, cfgvars, restarts, fwd_proc, fwd_socket, frame_counter, connect_retries, frames_parsed, last_read,
                   running, client_socket, fwd_pc,
                   consecutive_failures, current_delay, frame_errors, sleeps>>

\* lines 239-246: the forwarder thread starts with the current decoder process
\* and the socket as its arguments; a frame size <= 0 breaks out of the loop;
\* decode_frames starts with frame_errors = 0.  One forwarder is followed at a
\* time: where the client is started again, the next forwarder starts when
\* the one before has ended.
RxStartForwarder ==
    /\ rx_pc = "start_forwarder"
    /\ fwd_pc \in {"not_started", "done"}
    /\ fwd_pc' = "loop_test"
    /\ fwd_proc' = decoder_ffmpeg_process
    /\ fwd_socket' = client_socket
    /\ frame_errors' = 0
    /\ rx_pc' = IF frame_size_ok THEN "decode_test" ELSE "finally"
    /\ UNCHANGED <<rxkept, running, client_socket, lock,
                   consecutive_failures, current_delay, sleeps>>

\* decode_frames, lines 146-148: while running and the process exists and
\* poll() is None
RxDecodeTest ==
    /\ rx_pc = "decode_test"
    /\ rx_pc' = IF /\ running
                   /\ decoder_ffmpeg_process # NoProcess
                   /\ decoder_procs[decoder_ffmpeg_process].alive
                THEN "read_frame" ELSE "reset"
    /\ UNCHANGED <<rxrest, running, client_socket, lock, fwd_pc,
                   consecutive_failures, current_delay, frame_errors, sleeps>>

\* lines 151-155 and 159-163: one more frame error; max_frame_errors of them
\* end decode_frames
AfterFrameError(errors) ==
    IF errors >= max_frame_errors THEN "reset" ELSE "decode_test"

\* _read_frame_data and lines 149-155: a whole frame, or None when the decoder's
\* stdout ended before a whole frame (no byte, or some) or running went false
RxReadFrame ==
    /\ rx_pc = "read_frame"
    /\ \/ /\ running
          /\ ~decoder_procs[decoder_ffmpeg_process].stdout_eof
          /\ last_read' = "full"
          /\ rx_pc' = "parse"
          /\ UNCHANGED frame_errors
       \/ /\ \/ /\ decoder_procs[decoder_ffmpeg_process].stdout_eof
                /\ last_read' \in {"zero", "partial"}
             \/ /\ ~running
                /\ last_read' = "stopped"
          /\ frame_errors' = frame_errors + 1
          /\ rx_pc' = AfterFrameError(frame_errors + 1)
    /\ UNCHANGED <<qvars, svars, ovars, cfgvars, restarts, fwd_proc, fwd_socket, decoder_procs, decoder_ffmpeg_process,
                   decoder_ffmpeg_alive, frame_counter, connect_retries, frames_parsed,
                   running, client_socket, lock, fwd_pc,
                   consecutive_failures, current_delay, sleeps>>

\* _parse_frame and lines 157-163: the frame, or None when reshape or the filter
\* raised
RxParse ==
    /\ rx_pc = "parse"
    /\ \/ /\ frames_parsed' = frames_parsed + 1
          /\ rx_pc' = "count_frame"
          /\ UNCHANGED frame_errors
       \/ /\ frame_errors' = frame_errors + 1
          /\ rx_pc' = AfterFrameError(frame_errors + 1)
          /\ UNCHANGED frames_parsed
    /\ UNCHANGED <<qvars, svars, ovars, cfgvars, restarts, fwd_proc, fwd_socket, decoder_procs, decoder_ffmpeg_process,
                   decoder_ffmpeg_alive, frame_counter, connect_retries, last_read,
                   running, client_socket, lock, fwd_pc,
                   consecutive_failures, current_delay, sleeps>>

\* line 165: self.frame_counter += 1.  No code assigns self.frame_counter
\* (MPEGTSBase.__init__ sets self.frame_counters), so reading it raises
\* AttributeError, which leaves decode_frames for the handler of line 250;
\* lines 166-171, the put into the frame queue among them, are not reached.
RxCountFrame ==
    /\ rx_pc = "count_frame"
    /\ frame_counter = Unset
    /\ rx_pc' = "except"
    /\ UNCHANGED <<rxrest, running, client_socket, lock, fwd_pc,
                   consecutive_failures, current_delay, frame_errors, sleeps>>

\* lines 247-248: decode_frames returned
RxReset ==
    /\ rx_pc = "reset"
    /\ consecutive_failures' = 0
    /\ current_delay' = base_delay_ms
    /\ rx_pc' = "finally"
    /\ UNCHANGED <<rxrest, running, client_socket, lock, fwd_pc,
                   frame_errors, sleeps>>

\* lines 250-252: except Exception: consecutive_failures += 1
RxExcept ==
    /\ rx_pc = "except"
    /\ consecutive_failures' = consecutive_failures + 1
    /\ rx_pc' = "handle_failure"
    /\ UNCHANGED <<rxrest, running, client_socket, lock, fwd_pc,
                   current_delay, frame_errors, sleeps>>

\* _handle_failure: the extended cooldown, or the delay with its jitter
RxHandleFailure ==
    /\ rx_pc = "handle_failure"
    /\ IF consecutive_failures >= max_consecutive_failures
       THEN sleeps' = Append(sleeps, [kind |-> "cooldown",
                                      ms |-> extended_cooldown_ms])
       ELSE \E jitter \in Jitter(current_delay) :
              sleeps' = Append(sleeps,
                  [kind |-> "backoff",
                   ms |-> ReconnectDelay(current_delay, jitter, max_delay_ms)])
    /\ rx_pc' = "after_failure"
    /\ UNCHANGED <<rxrest, running, client_socket, lock, fwd_pc,
                   consecutive_failures, current_delay, frame_errors>>

\* lines 256-260: after the sleep
RxAfterFailure ==
    /\ rx_pc = "after_failure"
    /\ IF consecutive_failures >= max_consecutive_failures
       THEN /\ consecutive_failures' = 0
            /\ current_delay' = base_delay_ms
       ELSE /\ current_delay' = NextDelay(current_delay, max_delay_ms)
            /\ UNCHANGED consecutive_failures
    /\ rx_pc' = "finally"
    /\ UNCHANGED <<rxrest, running, client_socket, lock, fwd_pc,
                   frame_errors, sleeps>>

\* _cleanup_after_stream, lines 329-333: close the socket if there is one
RxFinallyClose ==
    /\ rx_pc = "finally"
    /\ client_socket' = IF client_socket = "open" THEN "closed" ELSE client_socket
    /\ fwd_socket' = IF fwd_socket = "open" THEN "closed" ELSE fwd_socket
    /\ rx_pc' = "cleanup_lock"
    /\ UNCHANGED <<rxkept, fwd_proc, running, lock, fwd_pc,
                   consecutive_failures, current_delay, frame_errors, sleeps>>

\* _cleanup_after_stream, line 334: with self.lock
RxCleanupLock ==
    /\ rx_pc = "cleanup_lock"
    /\ lock = "free"
    /\ lock' = "rx"
    /\ rx_pc' = "cleanup_call"
    /\ UNCHANGED <<rxrest, running, client_socket, fwd_pc,
                   consecutive_failures, current_delay, frame_errors, sleeps>>

\* _cleanup_after_stream, line 335: self.cleanup_decoder_ffmpeg() raises
\* AttributeError (no such method).  The with statement releases the lock; the
\* exception leaves the finally clause and receive_mpegts_stream, and the
\* receive thread ends.  Lines 336-338 are not reached.
RxCleanupCall ==
    /\ rx_pc = "cleanup_call"
    /\ lock' = "free"
    /\ rx_pc' = "crashed"
    /\ UNCHANGED <<rxrest, running, client_socket, fwd_pc,
                   consecutive_failures, current_delay, frame_errors, sleeps>>

\* the variables the forwarder's steps leave alone
fwdrest == <<qvars, svars, ovars, cfgvars, restarts, running, rx_pc, client_socket, fwd_proc, fwd_socket,
             decoder_ffmpeg_process,
             decoder_ffmpeg_alive, frame_counter, consecutive_failures, current_delay,
             frame_errors, connect_retries, sleeps, frames_parsed, last_read>>

\* forward_to_ffmpeg, line 58: while self.running
FwdLoopTest ==
    /\ fwd_pc = "loop_test"
    /\ fwd_pc' = IF running THEN "recv" ELSE "fin_lock"
    /\ UNCHANGED <<fwdrest, lock, decoder_procs>>

\* forward_to_ffmpeg, lines 60-66: recv returns data, or b"" at the end of the
\* stream, or raises OSError once the receive loop has closed the socket
FwdRecv ==
    /\ fwd_pc = "recv"
    /\ \/ fwd_socket = "open" /\ fwd_pc' = "lock"
       \/ fwd_socket = "open" /\ fwd_pc' = "fin_lock"
       \/ fwd_socket = "closed" /\ fwd_pc' = "fin_lock"
    /\ UNCHANGED <<fwdrest, lock, decoder_procs>>

\* forward_to_ffmpeg, line 69: with self.lock
FwdLock ==
    /\ fwd_pc = "lock"
    /\ lock = "free"
    /\ lock' = "fwd"
    /\ fwd_pc' = "write"
    /\ UNCHANGED <<fwdrest, decoder_procs>>

\* the receive thread is in decode_frames, reading the decoder's stdout
StdoutRead == rx_pc \in {"decode_test", "read_frame", "parse", "count_frame"}

\* stdin.write can be done with: there is a process, its stdin is open and it
\* has not exited
Writable ==
    /\ decoder_ffmpeg_process # NoProcess
    /\ ~decoder_procs[decoder_ffmpeg_process].stdin_closed
    /\ decoder_procs[decoder_ffmpeg_process].alive

\* forward_to_ffmpeg, lines 70-95: no process: stop; stdin closed: ValueError;
\* the process gone: BrokenPipeError; else the data is written and flushed.
\* While nobody reads the decoder's stdout the decoder, blocked in its own
\* write, no longer reads its stdin, and a write into the full pipe blocks,
\* inside the with block.
FwdWrite ==
    /\ fwd_pc = "write"
    /\ \/ /\ fwd_pc' = IF Writable THEN "loop_test" ELSE "fin_lock"
          /\ lock' = "free"
       \/ /\ Writable
          /\ ~StdoutRead
          /\ fwd_pc' = "write_blocked"
          /\ UNCHANGED lock
    /\ UNCHANGED <<fwdrest, decoder_procs>>

\* the blocked write of lines 85-86 ends with BrokenPipeError once the decoder
\* process has exited
FwdUnblock ==
    /\ fwd_pc = "write_blocked"
    /\ ~decoder_procs[decoder_ffmpeg_process].alive
    /\ fwd_pc' = "fin_lock"
    /\ lock' = "free"
    /\ UNCHANGED <<fwdrest, decoder_procs>>

\* forward_to_ffmpeg, line 99: finally: with self.lock
FwdFinLock ==
    /\ fwd_pc = "fin_lock"
    /\ lock = "free"
    /\ lock' = "fwd"
    /\ fwd_pc' = "fin_close"
    /\ UNCHANGED <<fwdrest, decoder_procs>>

\* forward_to_ffmpeg, lines 100-105: close the stdin of the current decoder
FwdFinClose ==
    /\ fwd_pc = "fin_close"
    /\ decoder_procs' =
         IF decoder_ffmpeg_process # NoProcess
         THEN [decoder_procs EXCEPT ![decoder_ffmpeg_process].stdin_closed = TRUE]
         ELSE decoder_procs
    /\ lock' = "free"
    /\ fwd_pc' = "done"
    /\ UNCHANGED fwdrest

\* the decoder process closes its stdout: it is about to exit (its input
\* ended, or it failed)
DecoderStdoutEof ==
    /\ \E i \in LiveDecoders :
         /\ ~decoder_procs[i].stdout_eof
         /\ decoder_procs' = [decoder_procs EXCEPT ![i].stdout_eof = TRUE]
    /\ UNCHANGED <<fwdrest, lock, fwd_pc>>

\* the decoder process has exited: poll() is no longer None
DecoderExit ==
    /\ \E i \in LiveDecoders :
         /\ decoder_procs[i].stdout_eof
         /\ decoder_procs' = [decoder_procs EXCEPT ![i].alive = FALSE]
    /\ UNCHANGED <<fwdrest, lock, fwd_pc>>

\* receive_mpegts_stream and what it calls
Receive ==
    \/ RxLoopTest \/ RxGetSocket \/ RxBind \/ RxConnect \/ RxCheckRunning
    \/ RxStartFfmpegLock \/ RxStartCleanup \/ RxPopen \/ RxStartForwarder
    \/ RxDecodeTest \/ RxReadFrame \/ RxParse \/ RxCountFrame \/ RxReset
    \/ RxExcept \/ RxHandleFailure \/ RxAfterFailure
    \/ RxFinallyClose \/ RxCleanupLock \/ RxCleanupCall

\* forward_to_ffmpeg
Forward ==
    \/ FwdLoopTest \/ FwdRecv \/ FwdLock \/ FwdWrite \/ FwdUnblock
    \/ FwdFinLock \/ FwdFinClose

NextClient ==
    Start \/ Stop \/ Receive \/ Forward \/ DecoderStdoutEof \/ DecoderExit

\* a client that its owner starts again after the receive thread has ended
NextRestart == NextClient \/ Restart

\* the receive thread and the forwarder thread are scheduled again and again;
\* start(), stop() and the end of a decoder process may never come
FairClient == WF_vars(Receive) /\ WF_vars(Forward)

(***************************************************************************)
(* MPEGTSServer: the encoder process and the writer thread.                *)
(***************************************************************************)

InitServer ==
    /\ server_running = FALSE
    /\ server_lock = "free"
    /\ srv_pc = "not_started"
    /\ encoder_procs = <<>>
    /\ encoder_ffmpeg_process = NoProcess
    /\ w_pc = "not_started"
    /\ w_frame = NoItem
    /\ frames_sent = 0
    /\ written = <<>>
    /\ skipped = <<>>

\* the variables the writer's steps leave alone
wrest == <<cvars, ovars, server_running, server_lock, srv_pc, encoder_procs,
           encoder_ffmpeg_process>>

\* MPEGTSServer.start(): running = True, the thread of _run_ffmpeg starts
ServerStart ==
    /\ srv_pc = "not_started"
    /\ server_running' = TRUE
    /\ srv_pc' = "run_ffmpeg"
    /\ UNCHANGED <<qvars, cvars, ovars, server_lock, encoder_procs, encoder_ffmpeg_process,
                   w_pc, w_frame, frames_sent, written, skipped>>

\* MPEGTSBase.stop(): running = False; cleanup_ffmpeg() then works on
\* self.ffmpeg_process, which a server never sets (its process is
\* self.encoder_ffmpeg_process), so the encoder is untouched
ServerStop ==
    /\ server_running
    /\ server_running' = FALSE
    /\ UNCHANGED <<qvars, cvars, ovars, server_lock, srv_pc, encoder_procs,
                   encoder_ffmpeg_process, w_pc, w_frame, frames_sent, written,
                   skipped>>

\* _run_ffmpeg, lines 77-96: Popen and the start of the writer thread and, with
\* a ws_broadcaster, of the stdout reader thread; or, on an exception,
\* running = False
RunFfmpeg ==
    /\ srv_pc = "run_ffmpeg"
    /\ srv_pc' = "done"
    /\ \/ /\ encoder_procs' = Append(encoder_procs, NewProcess)
          /\ encoder_ffmpeg_process' = Len(encoder_procs) + 1
          /\ w_pc' = "loop_test"
          /\ reader_pc' = IF ws_relay_enabled THEN "loop_test" ELSE reader_pc
          /\ UNCHANGED server_running
       \/ /\ server_running' = FALSE
          /\ UNCHANGED <<encoder_procs, encoder_ffmpeg_process, w_pc, reader_pc>>
    /\ UNCHANGED <<qvars, cvars, avars, tvars, nvars, server_lock, w_frame, frames_sent,
                   written, skipped>>
    /\ UNCHANGED <<ws_relay_enabled, chunk, ws_running, clients, client_order, table_fill, closed,
                   send_outcome, tasks, running_task, next_chunk, received, broadcast_calls>>

\* _write_frames, line 104: while running and the process and its stdin exist
WriterLoopTest ==
    /\ w_pc = "loop_test"
    /\ w_pc' = IF server_running /\ encoder_ffmpeg_process # NoProcess
               THEN "get" ELSE "exited"
    /\ UNCHANGED <<qvars, wrest, w_frame, frames_sent, written, skipped>>

\* _write_frames, lines 108-113 and 133-134: frame_queue.get(timeout=1.0), then
\* the throttle's sleep; queue.Empty goes back to the loop test
WriterGet ==
    /\ w_pc = "get"
    /\ \/ GetItem /\ w_frame' = Head(queue) /\ w_pc' = "check_stdin"
       \/ GetNothing /\ w_pc' = "loop_test" /\ UNCHANGED w_frame
    /\ UNCHANGED <<wrest, frames_sent, written, skipped>>

\* _write_frames, lines 115 and 129-131: stdin exists and is not closed, else
\* break
WriterCheckStdin ==
    /\ w_pc = "check_stdin"
    /\ w_pc' = IF ~encoder_procs[encoder_ffmpeg_process].stdin_closed
               THEN "select" ELSE "exited"
    /\ UNCHANGED <<qvars, wrest, w_frame, frames_sent, written, skipped>>

\* _write_frames, lines 117-125: select says whether stdin can be written now;
\* if not, the frame is skipped.  A pipe whose reader has exited is reported
\* writable.
WriterSelect ==
    /\ w_pc = "select"
    /\ \/ w_pc' = "write" /\ UNCHANGED skipped
       \/ /\ encoder_procs[encoder_ffmpeg_process].alive
          /\ w_pc' = "loop_test"
          /\ skipped' = Append(skipped, w_frame)
    /\ UNCHANGED <<qvars, wrest, w_frame, frames_sent, written>>

\* mutant: a written frame is not counted
CountSentNot(sent) == sent

\* _write_frames, line 121: frames_sent += 1
CountSent(sent) == sent + 1

\* _write_frames, lines 119-122 and 126-128: write and flush, frames_sent += 1;
\* BrokenPipeError when the encoder has exited: break
WriterWrite ==
    /\ w_pc = "write"
    /\ IF encoder_procs[encoder_ffmpeg_process].alive
       THEN /\ written' = Append(written, w_frame)
            /\ frames_sent' = CountSent(frames_sent)
            /\ w_pc' = "loop_test"
       ELSE /\ w_pc' = "exited"
            /\ UNCHANGED <<written, frames_sent>>
    /\ UNCHANGED <<qvars, wrest, w_frame, skipped>>

\* the encoder process exits on its own
EncoderExit ==
    /\ \E i \in 1..Len(encoder_procs) :
         /\ encoder_procs[i].alive
         /\ encoder_procs' = [encoder_procs EXCEPT ![i].alive = FALSE]
    /\ UNCHANGED <<qvars, cvars, ovars, server_running, server_lock, srv_pc,
                   encoder_ffmpeg_process, w_pc, w_frame, frames_sent, written,
                   skipped>>

\* _write_frames
Writer == WriterLoopTest \/ WriterGet \/ WriterCheckStdin \/ WriterSelect \/ WriterWrite

NextServer == Put \/ ServerStart \/ ServerStop \/ RunFfmpeg \/ Writer \/ EncoderExit

(***************************************************************************)
(* MPEGTSServer._read_stdout and WebSocketBroadcaster.                     *)
(***************************************************************************)

\* the websocket clients that may connect to the feed's broadcaster
Clients == 1..MaxClients

\* no chunk read yet, or b"" (end of the encoder's stdout)
NoChunk == 0

\* no client's send is awaited
NoClient == 0

\* the event loop runs no coroutine
NoTask == 0

\* how a client's send may end
SendOutcomes == {"ok", "raises", "slow"}

\* the outcomes in a fixed order, to tell apart the configurations of clients
\* up to the naming of the clients
OutcomeRank(o) == CASE o = "ok" -> 1 [] o = "raises" -> 2 [] OTHER -> 3

\* a _broadcast_async coroutine that run_coroutine_threadsafe has scheduled
NewTask(data) ==
    [data |-> data, pc |-> "scheduled", snapshot |-> {}, todo |-> <<>>,
     current |-> NoClient, clients_to_remove |-> {}]

\* mutant: a client whose send raised is not marked for removal
MarkForRemovalNot(to_remove, c) == to_remove

\* lines 51 and 65: clients_to_remove.append(client)
MarkForRemoval(to_remove, c) == to_remove \cup {c}

\* self.clients = set(): a set starts with a table of 8 slots, and the add that
\* takes the fifth of them (3/5 of the table) rebuilds the table
TableRebuildAt == 5

\* WebSocketBroadcaster.__init__ (running = True, no client) and the thread
\* started by MPEGTSServer.__init__ when the relay is enabled
InitBroadcaster ==
    /\ ws_relay_enabled \in BOOLEAN
    /\ reader_pc = "not_started"
    /\ chunk = NoChunk
    /\ ws_running = TRUE
    /\ clients = {}
    /\ client_order = <<>>
    /\ table_fill \in {0, TableRebuildAt - MaxClients}
    /\ closed = [c \in Clients |-> FALSE]
    /\ send_outcome \in {f \in [Clients -> SendOutcomes] :
                           \A c, d \in Clients :
                              c < d => OutcomeRank(f[c]) <= OutcomeRank(f[d])}
    /\ tasks = <<>>
    /\ running_task = NoTask
    /\ next_chunk = 1
    /\ received = [c \in Clients |-> <<>>]
    /\ broadcast_calls = 0

\* what the reader's and the broadcaster's steps leave alone
notbvars == <<qvars, cvars, svars, avars, tvars, nvars>>

\* the orders in which a set of clients can be listed
Orders(set) ==
    {order \in [1..Cardinality(set) -> set] :
        \A c \in set : \E k \in 1..Cardinality(set) : order[k] = c}

\* the listings of a set after the add of c to a set listed as order: c takes
\* the place of its slot and the others keep their order, unless the table was
\* rebuilt, which places every client anew
Listings(order, set, c, rebuilt) ==
    {listing \in Orders(set \cup {c}) :
        rebuilt \/ SelectSeq(listing, LAMBDA d : d # c) = order}

\* _handler, lines 17-20: a client connects and is added to self.clients (the
\* handler runs on the event loop, between two coroutine steps).  The add
\* takes a slot of the table, a free one or one a discarded client has left;
\* a discard frees no slot.  The discard of line 28, after the broadcaster
\* has closed the client, finds the client discarded already.
WsConnect ==
    /\ ws_relay_enabled
    /\ ws_running
    /\ running_task = NoTask
    /\ \E c \in Clients :
         /\ c \notin clients
         /\ ~closed[c]
         /\ clients' = clients \cup {c}
         /\ \E slot_reused \in {FALSE, table_fill > Cardinality(clients)} :
              LET fill == IF slot_reused THEN table_fill ELSE table_fill + 1
                  rebuilt == ~slot_reused /\ fill >= TableRebuildAt
              IN  /\ table_fill' = IF rebuilt THEN Cardinality(clients) + 1 ELSE fill
                  /\ client_order' \in Listings(client_order, clients, c, rebuilt)
    /\ UNCHANGED <<notbvars, ws_relay_enabled, reader_pc, chunk, ws_running, closed,
                   send_outcome, tasks, running_task, next_chunk, received, broadcast_calls>>

\* WebSocketBroadcaster.stop(): running = False, the event loop is stopped
WsStop ==
    /\ ws_relay_enabled
    /\ ws_running
    /\ ws_running' = FALSE
    /\ UNCHANGED <<notbvars, ws_relay_enabled, reader_pc, chunk, clients, client_order, table_fill, closed,
                   send_outcome, tasks, running_task, next_chunk, received, broadcast_calls>>

\* _read_stdout, line 143: while running and the process and its stdout exist
ReaderLoopTest ==
    /\ reader_pc = "loop_test"
    /\ reader_pc' = IF server_running /\ encoder_ffmpeg_process # NoProcess
                    THEN "read" ELSE "exited"
    /\ UNCHANGED <<notbvars, ws_relay_enabled, chunk, ws_running, clients, client_order, table_fill, closed,
                   send_outcome, tasks, running_task, next_chunk, received, broadcast_calls>>

\* _read_stdout, lines 145-147: stdout.read(1316) returns the encoder's next
\* chunk, or b"" once the encoder has exited (break); it blocks while the
\* encoder is alive and writes nothing (it writes no more than limit chunks)
ReadChunk(limit) ==
    /\ reader_pc = "read"
    /\ IF encoder_procs[encoder_ffmpeg_process].alive
       THEN /\ next_chunk <= limit
            /\ chunk' = next_chunk
            /\ next_chunk' = next_chunk + 1
            /\ reader_pc' = "broadcast"
       ELSE /\ chunk' = NoChunk
            /\ reader_pc' = "exited"
            /\ UNCHANGED next_chunk
    /\ UNCHANGED <<notbvars, ws_relay_enabled, ws_running, clients, client_order, table_fill, closed,
                   send_outcome, tasks, running_task, received, broadcast_calls>>

\* the read of an encoder that writes MaxChunks chunks
ReaderRead == ReadChunk(MaxChunks)

\* the read of an encoder that writes MaxOrderChunks chunks
ReaderReadNext == ReadChunk(MaxOrderChunks)

\* _read_stdout, line 149, and broadcast(), lines 77-88: nothing when the
\* broadcaster is stopped or has no client; else the coroutine is scheduled on
\* the broadcaster's event loop and broadcast returns
ReaderBroadcast ==
    /\ reader_pc = "broadcast"
    /\ tasks' = IF ws_running /\ clients # {}
                THEN Append(tasks, NewTask(chunk)) ELSE tasks
    /\ broadcast_calls' = broadcast_calls + 1
    /\ reader_pc' = "loop_test"
    /\ UNCHANGED <<notbvars, ws_relay_enabled, chunk, ws_running, clients, client_order, table_fill, closed,
                   send_outcome, running_task, next_chunk, received>>

\* where a coroutine goes on after the client in hand
AfterClient(todo) == IF todo = <<>> THEN "cleanup" ELSE "loop"

\* _broadcast_async, lines 43-48: the event loop starts the coroutine scheduled
\* first: no client: return; else it takes list(self.clients)
BcStart(i) ==
    /\ running_task = NoTask
    /\ tasks[i].pc = "scheduled"
    /\ \A j \in 1..(i - 1) : tasks[j].pc # "scheduled"
    /\ IF clients = {}
       THEN /\ tasks' = [tasks EXCEPT ![i] = [@ EXCEPT !.pc = "done"]]
            /\ UNCHANGED running_task
       ELSE /\ tasks' = [tasks EXCEPT ![i] =
                  [@ EXCEPT !.pc = "loop", !.snapshot = clients,
                      !.todo = client_order]]
            /\ running_task' = i
    /\ UNCHANGED <<clients, client_order, table_fill, closed, received>>

\* _broadcast_async, lines 48-65, for the next client of the list: closed:
\* marked for removal; else await client.send(data): it returns, it raises (the
\* client is marked for removal), or it stays pending and the coroutine is
\* suspended
BcSend(i) ==
    /\ running_task = i
    /\ tasks[i].pc = "loop"
    /\ LET c == Head(tasks[i].todo)
           rest == Tail(tasks[i].todo)
       IN
         IF closed[c] \/ send_outcome[c] = "raises"
         THEN /\ tasks' = [tasks EXCEPT ![i] =
                    [@ EXCEPT !.todo = rest, !.pc = AfterClient(rest),
                        !.clients_to_remove = MarkForRemoval(@, c)]]
              /\ UNCHANGED <<received, running_task>>
         ELSE IF send_outcome[c] = "ok"
         THEN /\ received' = [received EXCEPT ![c] = Append(@, tasks[i].data)]
              /\ tasks' = [tasks EXCEPT ![i] =
                    [@ EXCEPT !.todo = rest, !.pc = AfterClient(rest)]]
              /\ UNCHANGED running_task
         ELSE /\ tasks' = [tasks EXCEPT ![i] =
                    [@ EXCEPT !.todo = rest, !.pc = "awaiting", !.current = c]]
              /\ running_task' = NoTask
              /\ UNCHANGED received
    /\ UNCHANGED <<clients, client_order, table_fill, closed>>

\* _broadcast_async, lines 55-65: a pending send ends and the coroutine is
\* resumed: the client has taken the message, or the connection has failed and
\* send raises.  The pending sends to one client end in the order of the send
\* calls.
BcSendEnds(i) ==
    /\ running_task = NoTask
    /\ tasks[i].pc = "awaiting"
    /\ \A j \in 1..(i - 1) :
          ~(tasks[j].pc = "awaiting" /\ tasks[j].current = tasks[i].current)
    /\ running_task' = i
    /\ LET c == tasks[i].current IN
       \/ /\ ~closed[c]
          /\ received' = [received EXCEPT ![c] = Append(@, tasks[i].data)]
          /\ tasks' = [tasks EXCEPT ![i] =
                [@ EXCEPT !.pc = AfterClient(tasks[i].todo), !.current = NoClient]]
       \/ /\ tasks' = [tasks EXCEPT ![i] =
                [@ EXCEPT !.pc = AfterClient(tasks[i].todo), !.current = NoClient,
                    !.clients_to_remove = MarkForRemoval(@, c)]]
          /\ UNCHANGED received
    /\ UNCHANGED <<clients, client_order, table_fill, closed>>

\* _broadcast_async, lines 68-75: every client marked for removal is discarded
\* and, if it is not closed, closed; close() is awaited and its errors are
\* swallowed; then the coroutine is done
BcCleanup(i) ==
    /\ running_task = i
    /\ tasks[i].pc = "cleanup"
    /\ clients' = clients \ tasks[i].clients_to_remove
    /\ client_order' = SelectSeq(client_order,
                           LAMBDA c : c \notin tasks[i].clients_to_remove)
    /\ closed' = [c \in Clients |-> closed[c] \/ c \in tasks[i].clients_to_remove]
    /\ tasks' = [tasks EXCEPT ![i] =
                   [@ EXCEPT !.pc = "done", !.clients_to_remove = {}]]
    /\ running_task' = NoTask
    /\ UNCHANGED <<received, table_fill>>

\* the broadcaster's event loop runs one coroutine at a time, up to its next
\* await
EventLoop ==
    /\ ws_running
    /\ \E i \in 1..Len(tasks) :
         BcStart(i) \/ BcSend(i) \/ BcSendEnds(i) \/ BcCleanup(i)
    /\ UNCHANGED <<notbvars, ws_relay_enabled, reader_pc, chunk, ws_running,
                   send_outcome, next_chunk, broadcast_calls>>

\* _read_stdout
Reader == ReaderLoopTest \/ ReaderRead \/ ReaderBroadcast

\* a running server's stdout reader and the broadcaster with its clients
NextBroadcast ==
    ServerStart \/ RunFfmpeg \/ Reader \/ EventLoop \/ WsConnect \/ WsStop

\* the same with an encoder that writes MaxOrderChunks chunks
NextOrder ==
    \/ ServerStart \/ RunFfmpeg
    \/ ReaderLoopTest \/ ReaderReadNext \/ ReaderBroadcast
    \/ EventLoop \/ WsConnect \/ WsStop

(***************************************************************************)
(* TimeWindowAggregator.  Timestamps and the window are in milliseconds;   *)
(* the mean of a result is its total divided by its count.                 *)
(***************************************************************************)

\* the sensors whose samples are fed in (the schema's properties that have a
\* value)
Sensors == {"depth", "cardinal_direction"}

\* window_duration_ms: float = 50.0
DefaultWindowMs == 50

\* the window_duration_ms an aggregator is constructed with
WindowChoices == {DefaultWindowMs, 100}

\* sample_period of a feed whose samples are not evenly spaced
AnyPeriod == 0

\* the spacings of the timestamps of such a feed
StepChoices == {20, 40, 50}

\* the spacings of the evenly spaced feeds: window / period is a whole number,
\* a fraction above 1, and a fraction below 1
PeriodChoices == {20, 30, 50, 120}

\* the values of the n-th sample fed in
ValueChoices(n) == {2 * n - 1, 2}

\* TelemetryData of data_interface.telemetry_data
Sample(timestamp, sensor_id, value) ==
    [timestamp |-> timestamp, sensor_id |-> sensor_id, value |-> value,
     unit |-> "unit"]

\* d[key] = value
SetItem(d, key, value) ==
    [k \in (DOMAIN d) \cup {key} |-> IF k = key THEN value ELSE d[k]]

RECURSIVE SumValues(_)
\* sum(values)
SumValues(buffer) ==
    IF buffer = <<>> THEN 0 ELSE Head(buffer).value + SumValues(Tail(buffer))

\* min(values)
MinValue(buffer) ==
    CHOOSE v \in {buffer[i].value : i \in 1..Len(buffer)} :
        \A i \in 1..Len(buffer) : v <= buffer[i].value

\* max(values)
MaxValue(buffer) ==
    CHOOSE v \in {buffer[i].value : i \in 1..Len(buffer)} :
        \A i \in 1..Len(buffer) : v >= buffer[i].value

\* _emit_aggregation, lines 65-76: the AggregationResult of a buffer
Aggregation(sensor_id, current_time, buffer) ==
    [sensor_id |-> sensor_id, timestamp |-> current_time, count |-> Len(buffer),
     total |-> SumValues(buffer), min_value |-> MinValue(buffer),
     max_value |-> MaxValue(buffer), unit |-> buffer[1].unit]

\* mutant: the buffer is left as it is
ClearedNot(buffer) == buffer

\* _emit_aggregation, line 82: self._buffers[sensor_id].clear()
Cleared(buffer) == <<>>

\* flush(None)
AllSensors == "all"

\* flush() was not called
NoFlush == [sensor_id |-> "none", buffers |-> [k \in {} |-> <<>>], emitted |-> 0,
            adds |-> 0, after_flush_all |-> FALSE]

\* mutant: the flush emits with the timestamp of the first buffered sample
LastTimeFirst(buffer) == buffer[1].timestamp

\* flush, line 89: self._buffers[sensor_id][-1].timestamp
LastTime(buffer) == buffer[Len(buffer)].timestamp

\* mutant: the window has elapsed only when more than the window has passed
WindowElapsedLate(elapsed, window) == elapsed > window

\* line 56: elapsed >= self.window_duration_ms
WindowElapsed(elapsed, window) == elapsed >= window

InitAggregator ==
    /\ window_duration_ms \in WindowChoices
    /\ buffers = [k \in {} |-> <<>>]
    /\ last_emit = [k \in {} |-> 0]
    /\ emitted = <<>>
    /\ adds = 0
    /\ sample_period \in {AnyPeriod} \cup PeriodChoices
    /\ clock = 0
    /\ last_add = [sample |-> Sample(0, "none", 0), before |-> <<>>,
                   emitted |-> FALSE]
    /\ sensor_order = <<>>
    /\ added = [k \in {} |-> 0]
    /\ flushes = 0
    /\ last_flush = NoFlush

\* add(data), with _emit_aggregation when the window has elapsed
Add(data) ==
    LET sensor_id == data.sensor_id
        known == sensor_id \in DOMAIN buffers
        before == IF known THEN buffers[sensor_id] ELSE <<>>
        last == IF known THEN last_emit[sensor_id] ELSE data.timestamp
        buffer == Append(before, data)
        elapsed == data.timestamp - last
    IN  /\ IF WindowElapsed(elapsed, window_duration_ms)
           THEN /\ emitted' = Append(emitted,
                                  Aggregation(sensor_id, data.timestamp, buffer))
                /\ buffers' = SetItem(buffers, sensor_id, Cleared(buffer))
                /\ last_emit' = SetItem(last_emit, sensor_id, data.timestamp)
           ELSE /\ buffers' = SetItem(buffers, sensor_id, buffer)
                /\ last_emit' = SetItem(last_emit, sensor_id, last)
                /\ UNCHANGED emitted
        /\ last_add' = [sample |-> data, before |-> before,
                        emitted |-> WindowElapsed(elapsed, window_duration_ms)]
        /\ sensor_order' = IF known THEN sensor_order
                           ELSE Append(sensor_order, sensor_id)
        /\ added' = SetItem(added, sensor_id,
                            IF known THEN added[sensor_id] + 1 ELSE 1)

\* a caller feeds the next sample in: any sensor at uneven spacing, or one
\* sensor at a fixed rate; the first sample has timestamp 0
AddSample ==
    /\ adds < (IF sample_period = AnyPeriod THEN MaxAdds ELSE MaxRateAdds)
    /\ \E sensor_id \in (IF sample_period = AnyPeriod THEN Sensors ELSE {"depth"}),
          step \in (IF adds = 0 THEN {0}
                    ELSE IF sample_period = AnyPeriod THEN StepChoices
                    ELSE {sample_period}),
          value \in ValueChoices(adds + 1) :
         /\ clock' = clock + step
         /\ Add(Sample(clock + step, sensor_id, value))
    /\ adds' = adds + 1
    /\ UNCHANGED <<qvars, cvars, svars, bvars, tvars, nvars, window_duration_ms,
                   sample_period, flushes, last_flush>>

NextAggregator == AddSample

\* flush(sensor_id) with a sensor_id, lines 87-90, and _emit_aggregation: a
\* sensor with a non-empty buffer gets its result, stamped with its last
\* sample's timestamp, and an empty buffer; else nothing changes
FlushOne(sensor_id, state) ==
    IF sensor_id \in DOMAIN state.buffers /\ state.buffers[sensor_id] # <<>>
    THEN LET buffer == state.buffers[sensor_id]
             last_time == LastTime(buffer)
         IN  [buffers |-> SetItem(state.buffers, sensor_id, Cleared(buffer)),
              last_emit |-> SetItem(state.last_emit, sensor_id, last_time),
              emitted |-> Append(state.emitted,
                                 Aggregation(sensor_id, last_time, buffer))]
    ELSE state

RECURSIVE FlushEach(_, _)
\* flush(), lines 91-93: for sid in list(self._buffers.keys()): self.flush(sid)
FlushEach(order, state) ==
    IF order = <<>> THEN state
    ELSE FlushEach(Tail(order), FlushOne(Head(order), state))

\* the sensor ids flush is called with: the sensors and one never added
FlushArguments == Sensors \cup {"unknown"}

\* a caller calls flush(sensor_id) or flush()
Flush ==
    /\ flushes < MaxFlushes
    /\ \E sensor_id \in FlushArguments \cup {AllSensors} :
         LET state == [buffers |-> buffers, last_emit |-> last_emit,
                       emitted |-> emitted]
             after == IF sensor_id = AllSensors
                      THEN FlushEach(sensor_order, state)
                      ELSE FlushOne(sensor_id, state)
         IN  /\ buffers' = after.buffers
             /\ last_emit' = after.last_emit
             /\ emitted' = after.emitted
             /\ last_flush' = [sensor_id |-> sensor_id, buffers |-> buffers,
                               emitted |-> Len(emitted), adds |-> adds,
                               after_flush_all |->
                                   /\ last_flush.sensor_id = AllSensors
                                   /\ last_flush.adds = adds]
    /\ flushes' = flushes + 1
    /\ UNCHANGED <<qvars, cvars, svars, bvars, tvars, nvars, window_duration_ms,
                   sample_period, adds, clock, last_add, sensor_order, added>>

\* the caller of an aggregator that is also flushed feeds the next sample in:
\* any sensor, SteadyStepMs after the sample before
AddSteady ==
    /\ adds < MaxFlushAdds
    /\ \E sensor_id \in Sensors :
         LET timestamp == IF adds = 0 THEN 0 ELSE clock + SteadyStepMs IN
         /\ clock' = timestamp
         /\ Add(Sample(timestamp, sensor_id, adds + 1))
    /\ adds' = adds + 1
    /\ UNCHANGED <<qvars, cvars, svars, bvars, tvars, nvars, window_duration_ms,
                   sample_period, flushes, last_flush>>

NextFlush == AddSteady \/ Flush

(***************************************************************************)
(* TelemetryProcessor: what _on_telemetry_received does with a snapshot.   *)
(***************************************************************************)

\* no TelemetryData in hand
NoData == [timestamp |-> 0, sensor_name |-> "none",
           value |-> [snapshot |-> 0, filtered_by |-> 0], unit |-> "none"]

\* the numbers of Kalman filters a sensor is configured with
FilterChoices == {0, 1}

\* the unit the output schema gives a property (const, or the first of enum)
SchemaUnit(key) == IF key = "depth" THEN "m" ELSE "deg"

\* lines 172-176: the entry of the latest-state map made of a sample
StateEntry(data) ==
    [value |-> data.value, unit |-> data.unit, timestamp |-> data.timestamp]

InitProcessor ==
    /\ high_freq_sensors \in SUBSET Sensors
    /\ filters \in [Sensors -> FilterChoices]
    /\ kalman_initialized = [sensor \in Sensors |-> FALSE]
    /\ telemetry_state = [k \in {} |-> StateEntry(NoData)]
    /\ tp_pc = "idle"
    /\ tp_props = {}
    /\ tp_data = NoData
    /\ snapshots = 0
    /\ pipeline = <<>>
    /\ add_calls = <<>>
    /\ tp_fields = <<>>

\* what the processor's steps leave alone
nottvars == <<qvars, cvars, svars, bvars, avars, nvars, high_freq_sensors,
              filters>>

\* mutant: no sensor is routed to the aggregator
RoutedToAggregatorNever(sensor) == FALSE

\* line 165: if prop_name in self.high_freq_sensors
RoutedToAggregator(sensor) == sensor \in high_freq_sensors

\* _on_telemetry_received, lines 112-118: the receiver hands in a snapshot that
\* has some of the schema's properties; self.last_received_time = time.time()
OnTelemetryReceived ==
    /\ receiver_running
    /\ tp_pc = "idle"
    /\ snapshots < MaxSnapshots
    /\ snapshots' = snapshots + 1
    /\ tp_props' \in (SUBSET Sensors) \ {{}}
    /\ tp_fields' = Append(tp_fields, tp_props')
    /\ tp_pc' = "next_prop"
    /\ since_received' = 0
    /\ UNCHANGED <<qvars, cvars, svars, bvars, avars, kvars, rvars, untimed,
                   high_freq_sensors, filters, kalman_initialized,
                   telemetry_state, tp_data, pipeline, add_calls>>

\* lines 118-150 and 153-163: the next property is projected from the snapshot
\* into a TelemetryData stamped now; after the last one the callback returns
Project ==
    /\ tp_pc = "next_prop"
    /\ IF tp_props = {}
       THEN /\ tp_pc' = "idle"
            /\ UNCHANGED <<tp_props, tp_data, pipeline>>
       ELSE \E prop_name \in tp_props :
              /\ tp_props' = tp_props \ {prop_name}
              /\ tp_data' = [timestamp |-> snapshots, sensor_name |-> prop_name,
                             value |-> [snapshot |-> snapshots, filtered_by |-> 0],
                             unit |-> SchemaUnit(prop_name)]
              /\ pipeline' = Append(pipeline, <<"project", prop_name, snapshots>>)
              /\ tp_pc' = "filter"
    /\ UNCHANGED <<nottvars, kalman_initialized, telemetry_state, snapshots,
                   add_calls, tp_fields>>

\* apply_filters, lines 178-183, with KalmanFilter.apply: a sensor without
\* filter keeps its data; a Kalman filter returns its first sample as it is;
\* for a later sample line 64 reads data.sensor_id, which the TelemetryData of
\* common.data_interface (sensor_name) has not: AttributeError, which the
\* receiver's loop catches, skipping the rest of the snapshot
ApplyFilters ==
    /\ tp_pc = "filter"
    /\ LET sensor == tp_data.sensor_name IN
       IF filters[sensor] = 0
       THEN /\ pipeline' = Append(pipeline, <<"filter", sensor, snapshots>>)
            /\ tp_pc' = "route"
            /\ UNCHANGED <<tp_props, tp_data, kalman_initialized>>
       ELSE IF ~kalman_initialized[sensor]
       THEN /\ kalman_initialized' = [kalman_initialized EXCEPT ![sensor] = TRUE]
            /\ tp_data' = [tp_data EXCEPT !.value.filtered_by = filters[sensor]]
            /\ pipeline' = Append(pipeline, <<"filter", sensor, snapshots>>)
            /\ tp_pc' = "route"
            /\ UNCHANGED tp_props
       ELSE /\ tp_pc' = "idle"
            /\ tp_props' = {}
            /\ tp_data' = NoData
            /\ UNCHANGED <<pipeline, kalman_initialized>>
    /\ UNCHANGED <<nottvars, telemetry_state, snapshots, add_calls, tp_fields>>

\* handle_low_high_frequency, lines 165-176: a high-frequency sensor's sample
\* is passed to aggregator.add, whose line 46 reads data.sensor_id, which the
\* TelemetryData of common.data_interface has not: AttributeError before the
\* aggregator has changed, caught by the receiver's loop, skipping the rest of
\* the snapshot; any other sensor's sample is written into telemetry_state
Route ==
    /\ tp_pc = "route"
    /\ LET sensor == tp_data.sensor_name IN
       IF RoutedToAggregator(sensor)
       THEN /\ add_calls' = Append(add_calls, tp_data)
            /\ pipeline' = Append(pipeline, <<"aggregator", sensor, snapshots>>)
            /\ tp_pc' = "idle"
            /\ tp_props' = {}
            /\ UNCHANGED telemetry_state
       ELSE /\ telemetry_state' = SetItem(telemetry_state, sensor,
                                          StateEntry(tp_data))
            /\ pipeline' = Append(pipeline, <<"direct", sensor, snapshots>>)
            /\ tp_pc' = "next_prop"
            /\ UNCHANGED <<tp_props, add_calls>>
    /\ tp_data' = NoData
    /\ UNCHANGED <<nottvars, kalman_initialized, snapshots, tp_fields>>

NextProcessor == OnTelemetryReceived \/ Project \/ ApplyFilters \/ Route

(***************************************************************************)
(* TelemetryProcessor.start, _publish_loop, _assemble_packet and           *)
(* MQTTPublisher.  The output schema is not part of the source files: what *)
(* it accepts is taken from its description (every property other than    *)
(* timestamp and id is an object with value, unit and timestamp).          *)
(***************************************************************************)

\* the process has not ended
NoExit == -1

\* main() returned
ExitOk == 0

\* the process was ended by an error
ExitError == 1

\* line 246: self.last_received_time + 3 < time.time()
StaleAfterS == 3

\* start(), line 204: time.sleep(1)
GraceS == 1

\* no stale check was made
NoTick == [age |-> 0, calls |-> 0]

\* mutant: a snapshot received 3 s ago is stale
StaleAtLimit(age) == age >= StaleAfterS

\* line 246: self.last_received_time + 3 < time.time()
Stale(age) == age > StaleAfterS

\* the seconds that pass from one stale check of the publish loop to the next:
\* none, some, or more than make a receipt stale
SleepChoices == {0, StaleAfterS - GraceS, StaleAfterS + 1}

\* the seconds since the last receipt after some more have passed
Later(age, seconds) == Min(age + seconds, StaleAfterS + 1)

\* _assemble_packet, lines 270-296: the keys read from the latest-state map,
\* in the order of the dict display
PacketKeyOrder == <<"depth", "cardinal_direction">>

\* {"value": 0, "unit": unit, "timestamp": 0}
StructuredZero(unit) == [value |-> NoData.value, unit |-> unit, timestamp |-> 0]

\* the string ""
EmptyString == [string |-> ""]

\* lines 285 and 289: the second argument of telemetry_state.get
DefaultEntry(key) ==
    IF key = "depth" THEN StructuredZero("m") ELSE EmptyString

\* telemetry_state.get(key, default)
GetEntry(key) ==
    IF key \in DOMAIN telemetry_state THEN telemetry_state[key] ELSE DefaultEntry(key)

\* the output schema accepts the entry of a property
EntryValid(key, entry) ==
    /\ DOMAIN entry = {"value", "unit", "timestamp"}
    /\ entry.unit = SchemaUnit(key)

\* jsonschema.validate(instance=message, schema=schema) does not raise
PacketValid(packet) ==
    \A key \in DOMAIN packet : EntryValid(key, packet[key])

\* mutant: publish() gives the payload to the broker client whatever the
\* validation said
ReachesClientAlways(valid) == TRUE

\* publish(), lines 39-43: client.publish is reached when validate has not
\* raised
ReachesClient(valid) == valid

\* TelemetryProcessor.__init__ and MQTTPublisher.__init__: a processor that
\* main() is about to start, or one that is up with its threads running
InitMain ==
    /\ main_pc \in {"start", "main_loop"}
    /\ tp_running = (main_pc = "main_loop")
    /\ exit_code = NoExit
    /\ loop_started = (main_pc = "main_loop")
    /\ connected = (main_pc = "main_loop")
    /\ receiver_running = (main_pc = "main_loop")
    /\ handler_installed = (main_pc = "main_loop")
    /\ pp_pc = IF main_pc = "main_loop" THEN "loop_test" ELSE "not_started"
    /\ pp_read = 0
    /\ pp_packet = [k \in {} |-> EmptyString]
    /\ pp_missing = {}
    /\ ticks = 0
    /\ publish_calls = <<>>
    /\ handed_to_broker = <<>>
    /\ validation_logged = 0
    /\ signal_received = FALSE
    /\ since_received = IF main_pc = "main_loop" THEN GraceS ELSE 0
    /\ last_tick = NoTick

\* what the main thread's and the publish loop's steps leave alone
notpvars == <<qvars, cvars, svars, bvars, avars, tvars, kvars, rvars>>

\* what the main thread's steps leave alone in the publish loop
pubvars == <<pp_read, pp_packet, pp_missing, ticks, publish_calls,
             handed_to_broker, validation_logged, last_tick>>

\* start(), line 199: self.running = True
MainStart ==
    /\ main_pc = "start"
    /\ tp_running' = TRUE
    /\ main_pc' = "connect"
    /\ UNCHANGED <<since_received, notpvars, pubvars, exit_code, loop_started, connected,
                   receiver_running, handler_installed, pp_pc, signal_received>>

\* start(), line 202, and MQTTPublisher.connect, lines 56-65: the connect
\* attempt starts the client's network loop, or it raises, which connect
\* catches, setting connected to False
MainConnect ==
    /\ main_pc = "connect"
    /\ \/ loop_started' = TRUE /\ UNCHANGED connected
       \/ connected' = FALSE /\ UNCHANGED loop_started
    /\ main_pc' = "grace"
    /\ UNCHANGED <<since_received, notpvars, pubvars, tp_running, exit_code, receiver_running,
                   handler_installed, pp_pc, signal_received>>

\* _on_connect, lines 67-73, called by the network loop with rc = 0 when the
\* broker has accepted the session
BrokerSession ==
    /\ loop_started
    /\ ~connected
    /\ connected' = TRUE
    /\ UNCHANGED <<since_received, notpvars, pubvars, tp_running, main_pc, exit_code, loop_started,
                   receiver_running, handler_installed, pp_pc, signal_received>>

\* start(), lines 204-208, after the second of grace: not connected: running =
\* False and start returns, so that main returns and the process ends with
\* exit status 0
MainCheck ==
    /\ main_pc = "grace"
    /\ since_received' = Later(since_received, GraceS)
    /\ IF connected
       THEN /\ main_pc' = "start_threads"
            /\ UNCHANGED <<tp_running, exit_code>>
       ELSE /\ tp_running' = FALSE
            /\ main_pc' = "exited"
            /\ exit_code' = ExitOk
    /\ UNCHANGED <<notpvars, pubvars, loop_started, connected, receiver_running,
                   handler_installed, pp_pc, signal_received>>

\* start(), lines 210-214: the receiver is started, the SIGINT handler is
\* installed and the publish thread is started
MainStartThreads ==
    /\ main_pc = "start_threads"
    /\ receiver_running' = TRUE
    /\ handler_installed' = TRUE
    /\ pp_pc' = "loop_test"
    /\ main_pc' = "main_loop"
    /\ UNCHANGED <<since_received, notpvars, pubvars, tp_running, exit_code, loop_started,
                   connected, signal_received>>

\* _signal_handler and stop(), lines 221-228
Signal ==
    /\ handler_installed
    /\ exit_code = NoExit
    /\ ~signal_received
    /\ signal_received' = TRUE
    /\ tp_running' = FALSE
    /\ UNCHANGED <<since_received, notpvars, pubvars, main_pc, exit_code, loop_started, connected,
                   receiver_running, handler_installed, pp_pc>>

\* start(), lines 216-219: the main loop ends when running is false
MainLoop ==
    /\ main_pc = "main_loop"
    /\ ~tp_running
    /\ main_pc' = "cleanup"
    /\ UNCHANGED <<since_received, notpvars, pubvars, tp_running, exit_code, loop_started,
                   connected, receiver_running, handler_installed, pp_pc,
                   signal_received>>

\* _cleanup, lines 232-237: aggregator.flush(), receiver.stop() and
\* publisher.disconnect(), which stops the client's network loop and
\* disconnects the client
MainCleanup ==
    /\ main_pc = "cleanup"
    /\ LET after == FlushEach(sensor_order, [buffers |-> buffers,
                                             last_emit |-> last_emit,
                                             emitted |-> emitted])
       IN  /\ buffers' = after.buffers
           /\ last_emit' = after.last_emit
           /\ emitted' = after.emitted
    /\ flushes' = flushes + 1
    /\ receiver_running' = FALSE
    /\ loop_started' = FALSE
    /\ main_pc' = "stop_publish"
    /\ UNCHANGED <<since_received, qvars, cvars, svars, bvars, tvars, kvars, rvars,
                   window_duration_ms, sample_period, adds, clock, last_add,
                   sensor_order, added, last_flush, pubvars, tp_running,
                   exit_code, connected, handler_installed, pp_pc,
                   signal_received>>

\* _cleanup, lines 239-240: there is a publish thread: self.running = False
MainStop ==
    /\ main_pc = "stop_publish"
    /\ tp_running' = FALSE
    /\ main_pc' = "join"
    /\ UNCHANGED <<since_received, notpvars, pubvars, exit_code, loop_started,
                   connected, receiver_running, handler_installed, pp_pc,
                   signal_received>>

\* _cleanup, lines 241-242: publish_thread.join(); then start and main return
MainJoin ==
    /\ main_pc = "join"
    /\ pp_pc = "exited"
    /\ main_pc' = "exited"
    /\ exit_code' = ExitOk
    /\ UNCHANGED <<since_received, notpvars, pubvars, tp_running, loop_started, connected,
                   receiver_running, handler_installed, pp_pc, signal_received>>

\* what the publish loop's steps leave alone in the main thread
mainvars == <<tp_running, main_pc, exit_code, loop_started, connected,
              receiver_running, handler_installed, signal_received>>


\* mutant: the publish loop goes on whatever the running flag says
WhileTrue(flag) == TRUE

\* _publish_loop, line 245: while self.running
WhileRunning(flag) == flag

\* _publish_loop, line 245: while self.running; the time of the sleep of lines
\* 247 and 253, and any more, has passed
PublishLoopTest ==
    /\ pp_pc = "loop_test"
    /\ exit_code = NoExit
    /\ WhileRunning(tp_running) => ticks < MaxTicks
    /\ IF WhileRunning(tp_running)
       THEN /\ pp_pc' = "stale_check"
            /\ ticks' = ticks + 1
            /\ \E seconds \in SleepChoices :
                  since_received' = Later(since_received, seconds)
       ELSE /\ pp_pc' = "exited"
            /\ UNCHANGED <<ticks, since_received>>
    /\ UNCHANGED <<notpvars, mainvars, pp_read, pp_packet, pp_missing,
                   publish_calls, handed_to_broker, validation_logged, last_tick>>

\* _publish_loop, lines 246-249: nothing received for 3 s: sleep and continue;
\* else _assemble_packet is entered
PublishStaleCheck ==
    /\ pp_pc = "stale_check"
    /\ exit_code = NoExit
    /\ IF Stale(since_received)
       THEN pp_pc' = "loop_test" /\ UNCHANGED <<pp_read, pp_packet, pp_missing>>
       ELSE /\ pp_pc' = "assemble"
            /\ pp_read' = 0
            /\ pp_packet' = [k \in {} |-> EmptyString]
            /\ pp_missing' = {}
    /\ last_tick' = [age |-> since_received, calls |-> Len(publish_calls)]
    /\ UNCHANGED <<notpvars, mainvars, ticks, publish_calls, handed_to_broker,
                   validation_logged, since_received>>

\* _assemble_packet, lines 267-297: the next key is read from the latest-state
\* map; after the last one the packet is validated, an error is printed, and
\* the packet is returned (lines 299-304)
PublishAssemble ==
    /\ pp_pc = "assemble"
    /\ exit_code = NoExit
    /\ LET key == PacketKeyOrder[pp_read + 1] IN
       /\ pp_packet' = SetItem(pp_packet, key, GetEntry(key))
       /\ pp_missing' = IF key \in DOMAIN telemetry_state
                        THEN pp_missing ELSE pp_missing \cup {key}
    /\ pp_read' = pp_read + 1
    /\ pp_pc' = IF pp_read + 1 = Len(PacketKeyOrder) THEN "publish" ELSE "assemble"
    /\ UNCHANGED <<notpvars, mainvars, ticks, publish_calls, handed_to_broker,
                   validation_logged, since_received, last_tick>>

\* _publish_loop, lines 251-253, and MQTTPublisher.publish, lines 32-49: the
\* packet is validated; valid: it is serialized and given to client.publish;
\* invalid: ValidationError is caught and printed; then the loop sleeps
PublishPublish ==
    /\ pp_pc = "publish"
    /\ exit_code = NoExit
    /\ publish_calls' = Append(publish_calls,
                               [packet |-> pp_packet, missing |-> pp_missing,
                                client_stopped |-> ~loop_started])
    /\ IF ReachesClient(PacketValid(pp_packet))
       THEN /\ handed_to_broker' = Append(handed_to_broker, pp_packet)
            /\ UNCHANGED validation_logged
       ELSE /\ validation_logged' = validation_logged + 1
            /\ UNCHANGED handed_to_broker
    /\ pp_pc' = "loop_test"
    /\ UNCHANGED <<notpvars, mainvars, pp_read, pp_packet, pp_missing, ticks,
                   since_received, last_tick>>

\* start() from the main loop on, and _cleanup
Shutdown == MainLoop \/ MainCleanup \/ MainStop \/ MainJoin

\* main() and start()
Main ==
    \/ MainStart \/ MainConnect \/ MainCheck \/ MainStartThreads
    \/ Shutdown

\* _publish_loop
PublishLoop ==
    PublishLoopTest \/ PublishStaleCheck \/ PublishAssemble \/ PublishPublish

\* the telemetry processor from main() on: main thread, broker client and
\* publish thread, with a source that sends no snapshot
NextStartup == Main \/ BrokerSession \/ Signal \/ PublishLoop

\* a telemetry processor that is up: receiver thread and publish thread
NextPublish == NextProcessor \/ PublishLoop

\* a telemetry processor that is up and is stopped by a signal: receiver
\* thread, publish thread and main thread
NextCleanup == NextProcessor \/ PublishLoop \/ Signal \/ Shutdown

\* main()'s thread and the publish thread are scheduled again and again; the
\* signal and the broker's answer may never come
FairShutdown == WF_vars(Main) /\ WF_vars(PublishLoop)

(***************************************************************************)
(* KalmanFilter.  self.q, self.r, self.x and self.p are exact fractions.   *)
(***************************************************************************)

RECURSIVE Gcd(_, _)
\* the greatest common divisor of two naturals, not both 0
Gcd(a, b) == IF b = 0 THEN a ELSE Gcd(b, a % b)

\* the absolute value
Abs(a) == IF a < 0 THEN -a ELSE a

\* the fraction n / d in lowest terms, with a positive denominator
Frac(n, d) ==
    LET g == Gcd(Abs(n), Abs(d))
        sign == IF d < 0 THEN -1 ELSE 1
    IN  [n |-> sign * (n \div g), d |-> sign * (d \div g)]

\* a + b, a - b, a * b, a / b of fractions
FracAdd(a, b) == Frac(a.n * b.d + b.n * a.d, a.d * b.d)
FracSub(a, b) == Frac(a.n * b.d - b.n * a.d, a.d * b.d)
FracMul(a, b) == Frac(a.n * b.n, a.d * b.d)
FracDiv(a, b) == Frac(a.n * b.d, a.d * b.n)

\* initial_estimate: float = 0.0
InitialEstimateDefault == 0

\* initial_error: float = 1.0
InitialErrorDefault == 1

\* the process_variance and measurement_variance a filter is constructed with
VarianceChoices == {Frac(1, 2), Frac(2, 1)}

\* the measurements fed in
MeasurementChoices == {0, 2, 5}

\* the sequences of measurements fed in
InputSequences ==
    UNION {[1..len -> MeasurementChoices] : len \in 1..MaxKalmanInputs}

\* mutant: reset() leaves the error covariance as it is
ResetErrorKept(initial_error, p) == p

\* line 73: self.p = self._initial_error
ResetError(initial_error, p) == initial_error

\* mutant: reset() leaves the initialized flag as it is
ResetInitializedKept(initialized) == initialized

\* line 74: self._initialized = False
ResetInitialized(initialized) == FALSE

\* KalmanFilter.__init__
InitKalman ==
    /\ kf_q \in VarianceChoices
    /\ kf_r \in VarianceChoices
    /\ kf_initial_estimate = Frac(InitialEstimateDefault, 1)
    /\ kf_initial_error = Frac(InitialErrorDefault, 1)
    /\ kf_x = kf_initial_estimate
    /\ kf_p = kf_initial_error
    /\ kf_initialized = FALSE
    /\ kf_inputs \in InputSequences
    /\ kf_run = 1
    /\ kf_fed = 0
    /\ kf_outputs = <<<<>>, <<>>>>

\* what the filter's steps leave alone
notkvars == <<qvars, cvars, svars, bvars, avars, tvars, pvars, rvars>>

\* apply(data), lines 44-68: the first measurement becomes the estimate and
\* the data is returned as it is; a later measurement updates self.x and
\* self.p, and then the construction of the result raises: line 64 reads
\* data.sensor_id and passes sensor_id and metadata to the TelemetryData of
\* common.data_interface, which has the field sensor_name and no metadata
KalmanApply ==
    /\ kf_fed < Len(kf_inputs)
    /\ LET measurement == Frac(kf_inputs[kf_fed + 1], 1)
           x_pred == kf_x
           p_pred == FracAdd(kf_p, kf_q)
           k == FracDiv(p_pred, FracAdd(p_pred, kf_r))
           x == FracAdd(x_pred, FracMul(k, FracSub(measurement, x_pred)))
           p == FracMul(FracSub(Frac(1, 1), k), p_pred)
       IN  IF ~kf_initialized
           THEN /\ kf_x' = measurement
                /\ kf_initialized' = TRUE
                /\ kf_outputs' = [kf_outputs EXCEPT ![kf_run] =
                      Append(@, [outcome |-> "returned", value |-> measurement,
                                 x |-> measurement])]
                /\ UNCHANGED kf_p
           ELSE /\ kf_x' = x
                /\ kf_p' = p
                /\ kf_outputs' = [kf_outputs EXCEPT ![kf_run] =
                      Append(@, [outcome |-> "raised", value |-> Frac(0, 1),
                                 x |-> x])]
                /\ UNCHANGED kf_initialized
    /\ kf_fed' = kf_fed + 1
    /\ UNCHANGED <<notkvars, kf_q, kf_r, kf_initial_estimate, kf_initial_error,
                   kf_inputs, kf_run>>

\* reset(), lines 70-74, called when the first run is over
KalmanReset ==
    /\ kf_run = 1
    /\ kf_fed = Len(kf_inputs)
    /\ kf_x' = kf_initial_estimate
    /\ kf_p' = ResetError(kf_initial_error, kf_p)
    /\ kf_initialized' = ResetInitialized(kf_initialized)
    /\ kf_run' = 2
    /\ kf_fed' = 0
    /\ UNCHANGED <<notkvars, kf_q, kf_r, kf_initial_estimate, kf_initial_error,
                   kf_inputs, kf_outputs>>

NextKalman == KalmanApply \/ KalmanReset

(***************************************************************************)
(* TelemetryReceiver on TCP: _receive_loop and _process_data               *)
(***************************************************************************)

\* len(data) < 8, data[:8], data[8 : 8 + data_length]: the length prefix
HeaderLen == 8

\* buffer_size: int = 4096
BufferSize == 4096

\* struct.pack("Q", len(serialized_data)) + serialized_data: the bytes of
\* record n with a pickle of length bytes
Message(n, length) ==
    [k \in 1..(HeaderLen + length) |-> [rec |-> n, at |-> k, of |-> length]]

\* bytes[a:b]: from offset a up to, not including, offset b or the end
Slice(bytes, a, b) == SubSeq(bytes, a + 1, Min(b, Len(bytes)))

\* the eight bytes are the length prefix of one record
IsPrefix(header) ==
    /\ Len(header) = HeaderLen
    /\ \A k \in 1..HeaderLen : header[k].at = k /\ header[k].rec = header[1].rec

\* struct.unpack("Q", header)[0]: the length a prefix holds; eight bytes
\* that are no prefix spell some number
Unpack(header) ==
    IF IsPrefix(header) THEN {header[1].of} ELSE 0..(HeaderLen + MaxBody)

\* pickle.loads(bytes) returns: the bytes are the whole pickle of a record
\* (it raises on no bytes, on a truncated pickle and on bytes from the middle
\* of the stream)
IsPickle(bytes) ==
    /\ bytes # <<>>
    /\ bytes[1].at = HeaderLen + 1
    /\ Len(bytes) >= bytes[1].of
    /\ \A k \in 1..bytes[1].of :
         bytes[k].rec = bytes[1].rec /\ bytes[k].at = HeaderLen + k

\* the bytes are one whole record: its prefix and its pickle
IsMessage(bytes) ==
    /\ bytes # <<>>
    /\ bytes[1].at = 1
    /\ Len(bytes) = HeaderLen + bytes[1].of

\* the records sent so far
RecordsSent == IF wire = <<>> THEN 0 ELSE wire[Len(wire)].rec

InitReceiver ==
    /\ wire = <<>>
    /\ wire_read = 0
    /\ rcv_pc = "recv"
    /\ rcv_data = <<>>
    /\ delivered = <<>>
    /\ rcv_incomplete = 0
    /\ rcv_skipped = 0
    /\ whole_records = TRUE

\* what the receiver's and the simulator's steps leave alone
notrvars == <<qvars, cvars, svars, bvars, avars, tvars, kvars, pvars>>

\* rov_telemetry_simulator.py, lines 115-122: the next record is pickled and
\* sent with its length in front, conn.sendall(message)
SimulatorSend ==
    /\ RecordsSent < MaxRecords
    /\ \E length \in 1..MaxBody :
         wire' = wire \o Message(RecordsSent + 1, length)
    /\ UNCHANGED <<notrvars, wire_read, rcv_pc, rcv_data, delivered,
                   rcv_incomplete, rcv_skipped, whole_records>>

\* _receive_loop, line 113: data = self.socket.recv(self.buffer_size) returns
\* some of the bytes that have arrived, at least one and at most buffer_size,
\* wherever the records begin and end
ReceiverRecv ==
    /\ rcv_pc = "recv"
    /\ wire_read < Len(wire)
    /\ \E n \in 1..Min(BufferSize, Len(wire) - wire_read) :
         /\ rcv_data' = SubSeq(wire, wire_read + 1, wire_read + n)
         /\ wire_read' = wire_read + n
         /\ whole_records' = (whole_records /\ IsMessage(rcv_data'))
    /\ rcv_pc' = "process"
    /\ UNCHANGED <<notrvars, wire, delivered, rcv_incomplete, rcv_skipped>>

\* _process_data(data), lines 133-145, called at line 120: fewer than eight
\* bytes are reported and dropped; else the first eight bytes are taken as
\* the length, data[8 : 8 + data_length] is unpickled and the callback is
\* called with the result.  pickle.loads raising is caught at lines 128-131
\* ("skipping packet").  Whatever of data lies behind the pickle is dropped
\* with data; nothing of data is kept for the next call.
ReceiverProcess ==
    /\ rcv_pc = "process"
    /\ rcv_pc' = "recv"
    /\ IF Len(rcv_data) < HeaderLen
         THEN /\ rcv_incomplete' = rcv_incomplete + 1
              /\ UNCHANGED <<delivered, rcv_skipped>>
         ELSE \E data_length \in Unpack(Slice(rcv_data, 0, HeaderLen)) :
                LET pickled_data ==
                        Slice(rcv_data, HeaderLen, HeaderLen + data_length)
                IN  IF IsPickle(pickled_data)
                      THEN /\ delivered' = Append(delivered, pickled_data[1].rec)
                           /\ UNCHANGED <<rcv_incomplete, rcv_skipped>>
                      ELSE /\ rcv_skipped' = rcv_skipped + 1
                           /\ UNCHANGED <<delivered, rcv_incomplete>>
    /\ UNCHANGED <<notrvars, wire, wire_read, rcv_data, whole_records>>

NextStream == SimulatorSend \/ ReceiverRecv \/ ReceiverProcess

\* the frame queue of the feed whose client is observed
FeedQueue == max_queue_size = MaxCapacity

\* the client of the feed whose queue is observed: not started, defaults
IdleClient ==
    /\ network_type = "tcp"
    /\ max_consecutive_failures = MaxFailuresCfg
    /\ max_frame_errors = MaxFrameErrorsCfg
    /\ max_delay_ms = MaxDelayMs
    /\ frame_size_ok = TRUE

\* a server without websocket relay
IdleBroadcaster ==
    /\ ws_relay_enabled = FALSE
    /\ table_fill = 0
    /\ send_outcome = [c \in Clients |-> "ok"]

\* an aggregator with the default window that is not fed
IdleAggregator ==
    /\ window_duration_ms = DefaultWindowMs
    /\ sample_period = AnyPeriod

\* a telemetry processor without filters and high-frequency sensors that
\* receives nothing
IdleProcessor ==
    /\ high_freq_sensors = {}
    /\ filters = [sensor \in Sensors |-> 0]

\* a Kalman filter with one measurement to be fed in
IdleKalman ==
    /\ kf_q = Frac(1, 2)
    /\ kf_r = Frac(1, 2)
    /\ kf_inputs = <<0>>

\* a telemetry processor that main() is about to start
NotStarted == main_pc = "start"

\* a telemetry processor that is up
Started == main_pc = "main_loop"

\* every component as constructed
InitAll ==
    /\ InitQueue /\ InitClient /\ InitServer
    /\ InitBroadcaster /\ InitAggregator /\ InitProcessor
    /\ InitKalman /\ InitMain /\ InitReceiver

\* the components of the telemetry processor, not observed
IdleTelemetry ==
    IdleAggregator /\ IdleProcessor /\ IdleKalman /\ NotStarted

\* the components of a video feed, not observed
IdleFeed == FeedQueue /\ IdleClient /\ IdleBroadcaster

Init ==
    IdleClient /\ IdleBroadcaster /\ IdleTelemetry /\ InitAll

InitFeed ==
    FeedQueue /\ IdleBroadcaster /\ IdleTelemetry /\ InitAll

InitBroadcast ==
    /\ FeedQueue /\ IdleClient /\ IdleTelemetry
    /\ ws_relay_enabled = TRUE
    /\ table_fill = 0
    /\ InitAll

\* a server with the relay on whose broadcaster has had clients before: the
\* slots they left are such that the add of the last of MaxClients clients
\* rebuilds the table
InitOrder ==
    /\ FeedQueue /\ IdleClient /\ IdleTelemetry
    /\ ws_relay_enabled = TRUE
    /\ table_fill = TableRebuildAt - MaxClients
    /\ InitAll

InitAggregation ==
    IdleFeed /\ IdleProcessor /\ IdleKalman /\ NotStarted /\ InitAll

\* an aggregator fed at uneven spacing
UnevenFeed == sample_period = AnyPeriod

InitFlush ==
    IdleFeed /\ IdleProcessor /\ IdleKalman /\ NotStarted /\ UnevenFeed /\ InitAll

InitTelemetry ==
    IdleFeed /\ IdleAggregator /\ IdleKalman /\ Started /\ InitAll

InitFilter ==
    IdleFeed /\ IdleAggregator /\ IdleProcessor /\ NotStarted /\ InitAll

InitStartup ==
    IdleFeed /\ IdleAggregator /\ IdleKalman /\ NotStarted /\ InitAll

InitPublish ==
    /\ IdleFeed /\ IdleAggregator /\ IdleKalman /\ Started
    /\ filters = [sensor \in Sensors |-> 0]
    /\ high_freq_sensors = {}
    /\ InitAll

Next == Put \/ Get \/ GetEmpty

\* a BackpressureQueue with one producer thread and one consumer thread
Spec == Init /\ [][Next]_vars

\* one feed's MPEGTSClient: receive thread, forwarder thread, decoder process
SpecClient == InitFeed /\ [][NextClient]_vars

\* a client with the default resilience settings, on any network type
InitRestart ==
    /\ max_consecutive_failures = MaxFailuresCfg
    /\ max_frame_errors = MaxFrameErrorsCfg
    /\ max_delay_ms = MaxDelayMs
    /\ frame_size_ok = TRUE
    /\ FeedQueue /\ IdleBroadcaster /\ IdleTelemetry /\ InitAll

\* one feed's MPEGTSClient, started again after its receive thread has ended
SpecRestart == InitRestart /\ [][NextRestart]_vars

\* the same client with its two threads scheduled fairly
SpecTeardown == InitFeed /\ [][NextClient]_vars /\ FairClient

\* one feed's MPEGTSServer fed through its frame queue by a producer thread
SpecServer == Init /\ [][NextServer]_vars

\* one feed's MPEGTSServer with websocket relay: encoder process, stdout reader
\* thread, and the broadcaster's event loop with its clients
SpecBroadcast == InitBroadcast /\ [][NextBroadcast]_vars

\* the same server with an encoder that writes MaxOrderChunks chunks
SpecOrder == InitOrder /\ [][NextOrder]_vars

\* the same server with a broadcaster that has had no client before
SpecFreshTable == InitBroadcast /\ [][NextOrder]_vars

\* the telemetry receiver reading the simulator's records from a TCP stream
SpecStream == Init /\ [][NextStream]_vars

\* a TimeWindowAggregator fed by one caller
SpecAggregator == InitAggregation /\ [][NextAggregator]_vars

\* a TimeWindowAggregator whose caller adds samples and flushes
SpecFlush == InitFlush /\ [][NextFlush]_vars

\* a TelemetryProcessor whose receiver hands in snapshots
SpecTelemetry == InitTelemetry /\ [][NextProcessor]_vars

\* a KalmanFilter fed a sequence, reset, and fed the same sequence again
SpecKalman == InitFilter /\ [][NextKalman]_vars

\* the telemetry processor from main() on
SpecStartup == InitStartup /\ [][NextStartup]_vars

\* a telemetry processor without filters, with depth as its high-frequency
\* sensor, that is up
InitCleanup ==
    /\ IdleFeed /\ IdleAggregator /\ IdleKalman /\ Started
    /\ filters = [sensor \in Sensors |-> 0]
    /\ high_freq_sensors = {"depth"}
    /\ InitAll

\* the receiver thread, the publish thread and the main thread of a telemetry
\* processor that is stopped by a signal
SpecCleanup == InitCleanup /\ [][NextCleanup]_vars

\* the same processor with its two threads scheduled fairly
SpecShutdown == InitStartup /\ [][NextStartup]_vars /\ FairShutdown

\* the receiver thread and the publish thread of a telemetry processor
\* without filters
SpecPublish == InitPublish /\ [][NextPublish]_vars

(***************************************************************************)
(* BackpressureQueue: properties.                                          *)
(***************************************************************************)

\* C1: with one producer and one consumer, in every reachable state the number
\* of queued items is at most the capacity max_queue_size (>= 1).
C1_SizeWithinCapacity == Len(queue) <= max_queue_size

\* C1 witness: the queue is full while a put() that found it full is evicting
\* and the consumer has already taken items.
C1_FullQueueWitness ==
    /\ Len(queue) = max_queue_size
    /\ max_queue_size > 1
    /\ put_pc = "empty_check"
    /\ gets_returned > 0

\* C2: whenever no put() is in progress (get() is one atomic dequeue), the puts
\* that returned = the items get() returned + the queue size + dropped_frames.
C2_Conservation ==
    put_pc = "idle" =>
        puts_completed = gets_returned + Len(queue) + dropped_frames

\* C2 witness: a put() that evicted has returned, and a get() dequeued while it
\* was evicting.
C2_ConservationWitness ==
    /\ put_pc = "idle"
    /\ dropped_frames > 0
    /\ get_during_put
    /\ queue # <<>>

\* C3: a put() that finds the queue full and runs with no get() dequeuing
\* meanwhile evicts every queued item, adds exactly their number to
\* dropped_frames and leaves only the new item queued; a put() that finds room
\* appends the item and leaves dropped_frames alone; a put() in progress always
\* has a step it can take, whatever the consumer does.
C3_PutContract ==
    /\ [][ /\ (put_pc = "put_again" /\ put_pc' = "idle" /\ ~get_during_put) =>
                /\ Len(put_start.queue) = max_queue_size
                /\ queue' = <<put_item>>
                /\ dropped_frames' = put_start.dropped + Len(put_start.queue)
           /\ (put_pc = "idle" /\ put_pc' = "idle" /\ next_item' # next_item) =>
                /\ queue' = Append(queue, next_item)
                /\ dropped_frames' = dropped_frames
         ]_vars
    /\ [](put_pc # "idle" => ENABLED Put)

\* C3 witness: a put() into a full queue of capacity above 1 has returned with
\* no get() in between.
C3_FullPutWitness ==
    /\ put_pc = "idle"
    /\ put_start.full
    /\ ~get_during_put
    /\ max_queue_size > 1
    /\ queue = <<put_item>>

C5_FivePuts ==
    /\ max_queue_size = 3
    /\ gets_returned = 0
    /\ puts_completed = 5
    /\ put_pc = "idle"

\* C5 (as claimed): capacity 3, put 1..5 without get: size 1, contents {5},
\* dropped count 4.
C5_AsClaimed ==
    C5_FivePuts => (Len(queue) = 1 /\ queue = <<5>> /\ dropped_frames = 4)

\* C5 (amended): capacity 3, put 1..5 without get: size 2, contents 4, 5,
\* dropped count 3.
C5_AsComputed ==
    C5_FivePuts => (Len(queue) = 2 /\ queue = <<4, 5>> /\ dropped_frames = 3)

\* C5 witness: the five puts have been made into the queue of capacity 3.
C5_Witness == C5_FivePuts /\ next_item = 6

(***************************************************************************)
(* MPEGTSClient and MPEGTSServer: properties.                              *)
(***************************************************************************)

\* the queue's part of C6: with frames put in increasing order, every frame the
\* encoder writer dequeues is newer than the one it dequeued before, whatever
\* the interleaving of put (evictions included) and get
DequeuedInOrder ==
    [][(w_pc = "get" /\ w_pc' = "check_stdin") => w_frame' > w_frame]_vars

\* C6 (as claimed, the decoder's part): every frame the decoder has parsed got
\* frame_id = previous frame_id + 1 on its way into the frame queue, so after n
\* parsed frames the frame counter stands at n.
C6_ParsedFramesNumbered ==
    (frames_parsed > 0 /\ rx_pc # "count_frame") => frame_counter = frames_parsed

\* no connection is open: before the first one, or after _cleanup_after_stream
\* has run
ConnectionOver == rx_pc \in {"not_started", "loop_test", "returned", "crashed"}

\* C7 (as claimed): at most one decoder process is alive, and once a connection
\* has ended its decoder process is torn down and the process pointer cleared.
C7_OneDecoderTornDown ==
    /\ Cardinality(LiveDecoders) <= 1
    /\ ConnectionOver =>
         /\ decoder_ffmpeg_process = NoProcess
         /\ LiveDecoders = {}

\* C8 (as claimed): the encoder writer checks the process and its stdin, and
\* writes, while it holds the feed-local lock.
C8_WriteUnderLock ==
    w_pc \in {"check_stdin", "select", "write"} => server_lock = "writer"

\* a step of the receive thread from one place to another
RxStep(from, to) == rx_pc = from /\ rx_pc' = to

\* C9: a failure that leaves consecutive_failures below max_consecutive_failures
\* adds 1 to consecutive_failures, sleeps min(current_delay + j, max_delay) for a
\* j in [0, current_delay / 10], then sets current_delay to
\* min(2 * current_delay, max_delay); current_delay starts at base_delay.
C9_Backoff ==
    /\ [][ /\ RxStep("except", "handle_failure") =>
                consecutive_failures' = consecutive_failures + 1
           /\ ( /\ RxStep("handle_failure", "after_failure")
                /\ consecutive_failures < max_consecutive_failures ) =>
                \E j \in 0..(current_delay \div 10) :
                   sleeps' = Append(sleeps,
                       [kind |-> "backoff",
                        ms |-> Min(current_delay + j, max_delay_ms)])
           /\ ( /\ RxStep("after_failure", "finally")
                /\ consecutive_failures < max_consecutive_failures ) =>
                /\ current_delay' = Min(2 * current_delay, max_delay_ms)
                /\ consecutive_failures' = consecutive_failures
         ]_vars
    /\ [](rx_pc \in {"loop_test", "get_socket"} => current_delay = base_delay_ms)

\* C9 witness: after a first failure below the maximum the loop has slept the
\* capped delay and current_delay is capped too.
C9_BackoffWitness ==
    /\ rx_pc = "finally"
    /\ consecutive_failures = 1
    /\ consecutive_failures < max_consecutive_failures
    /\ sleeps # <<>>
    /\ sleeps[Len(sleeps)] = [kind |-> "backoff", ms |-> max_delay_ms]
    /\ max_delay_ms < 2 * base_delay_ms
    /\ current_delay = max_delay_ms

\* the receive loop has taken the extended cooldown
CooledDown == \E i \in 1..Len(sleeps) : sleeps[i].kind = "cooldown"

\* the failure that reaches max_consecutive_failures sleeps extended_cooldown
\* and then resets consecutive_failures and current_delay
CooldownAndReset ==
    [][ /\ ( /\ RxStep("handle_failure", "after_failure")
             /\ consecutive_failures >= max_consecutive_failures ) =>
             sleeps' = Append(sleeps, [kind |-> "cooldown",
                                       ms |-> extended_cooldown_ms])
        /\ ( /\ RxStep("after_failure", "finally")
             /\ consecutive_failures >= max_consecutive_failures ) =>
             /\ consecutive_failures' = 0
             /\ current_delay' = base_delay_ms
      ]_vars

\* C10 (as claimed, its last part): after the extended cooldown and the reset
\* the receive loop resumes connecting: while running is true it has not ended.
C10_ResumesAfterCooldown ==
    (CooledDown /\ running) => rx_pc \notin {"crashed", "returned"}

\* C11 (as claimed): consecutive_failures and current_delay are reset after a
\* connection only when that connection produced at least one frame: when the
\* receive loop of a running feed stands at the reset of lines 247-248 a frame
\* has been parsed.
C11_ResetOnlyAfterFrame ==
    (running /\ rx_pc = "reset") => frames_parsed > 0

\* the configuration of C12: base 500 ms, max 30 s, 3 failures, cooldown 60 s
ThreeFailuresCfg ==
    /\ base_delay_ms = BaseDelayMs
    /\ max_delay_ms = MaxDelayMs
    /\ max_consecutive_failures = 3
    /\ extended_cooldown_ms = ExtendedCooldownMs

\* a sleep of the reconnect delay policy (not the cooldown, not the wait for
\* the TCP peer inside one attempt)
IsBackoff(sleep) == sleep.kind = "backoff"

RECURSIVE TotalMs(_)
TotalMs(s) == IF s = <<>> THEN 0 ELSE Head(s).ms + TotalMs(Tail(s))

\* C12 (as claimed): with base 500 ms, max 30 s, 3 failures and a 60 s cooldown
\* the loop goes on failing and retrying until the cooldown (it has not ended
\* after a failure below the maximum), and when it takes the cooldown it has
\* waited between 1500 ms and 3500 ms * 1.1 in all.
C12_ThreeFailuresThenCooldown ==
    ThreeFailuresCfg =>
      /\ ( /\ running
           /\ SelectSeq(sleeps, IsBackoff) # <<>>
           /\ ~CooledDown ) => rx_pc # "crashed"
      /\ CooledDown =>
           /\ TotalMs(SelectSeq(sleeps, IsBackoff)) >= 1500
           /\ TotalMs(SelectSeq(sleeps, IsBackoff)) * 10 <= 3500 * 11

\* C13 (as claimed, its last part): the receive loop never terminates while
\* running is true.
C13_LoopNeverEndsWhileRunning ==
    running => rx_pc \notin {"returned", "crashed"}

\* encoder child processes that have not exited
LiveEncoders == {i \in 1..Len(encoder_procs) : encoder_procs[i].alive}

\* C17 (as claimed): at most one encoder process is alive, and when the writer
\* has left its loop although the feed is running (the encoder exited), a new
\* encoder process has been started.
C17_EncoderRestarted ==
    /\ Cardinality(LiveEncoders) <= 1
    /\ (server_running /\ srv_pc = "done" /\ w_pc = "exited") => LiveEncoders # {}

(***************************************************************************)
(* WebSocketBroadcaster: properties.                                       *)
(***************************************************************************)

\* how often a message occurs among the messages a client was sent
Occurrences(messages, data) ==
    Cardinality({k \in 1..Len(messages) : messages[k] = data})

\* C14: once a broadcast has been processed, every client of it whose send
\* raised is out of the client set, every client whose send returned is still
\* in the set and was sent the data exactly once, and the caller of broadcast
\* (the stdout reader) has not been thrown out of its loop.
C14_FailingClientDropped ==
    /\ \A i \in 1..Len(tasks) :
         tasks[i].pc = "done" =>
           \A c \in tasks[i].snapshot :
              /\ send_outcome[c] = "raises" => c \notin clients
              /\ send_outcome[c] = "ok" =>
                   /\ c \in clients
                   /\ Occurrences(received[c], tasks[i].data) = 1
    /\ reader_pc = "exited" => (~server_running \/ LiveEncoders = {})

\* C14 witness: a broadcast to three clients, two whose send returns and one
\* whose send raises, has been processed and the caller is back in its loop.
C14_ThreeClientsWitness ==
    /\ Len(tasks) = 1
    /\ tasks[1].pc = "done"
    /\ tasks[1].snapshot = {1, 2, 3}
    /\ Cardinality({c \in Clients : send_outcome[c] = "ok"}) = 2
    /\ Cardinality({c \in Clients : send_outcome[c] = "raises"}) = 1
    /\ Cardinality(clients) = 2
    /\ \A c \in clients : received[c] = <<tasks[1].data>>
    /\ broadcast_calls = 1
    /\ reader_pc = "loop_test"

\* C15 (as claimed): a client whose send does not complete is not awaited: no
\* coroutine stands in a pending send to a client that is still in the client
\* set, nor with other clients waiting for the data behind it.
C15_SlowClientNotAwaited ==
    \A i \in 1..Len(tasks) :
       tasks[i].pc = "awaiting" =>
          /\ tasks[i].current \notin clients
          /\ tasks[i].todo = <<>>

\* C16 (as claimed): once running is false and the loops of the server have
\* ended, the encoder child process has been terminated.
C16_StoppedAndTerminated ==
    (~server_running /\ srv_pc = "done" /\ w_pc = "exited") => LiveEncoders = {}

(***************************************************************************)
(* TelemetryProcessor and TimeWindowAggregator: properties.                *)
(***************************************************************************)

\* the sample of this sensor and snapshot went through the first stage and
\* later through the second
Before(first, second, sensor, snapshot) ==
    \E i, j \in 1..Len(pipeline) :
       /\ i < j
       /\ pipeline[i] = <<first, sensor, snapshot>>
       /\ pipeline[j] = <<second, sensor, snapshot>>

\* the sample of this sensor and snapshot went through this stage
Went(stage, sensor, snapshot) ==
    \E i \in 1..Len(pipeline) : pipeline[i] = <<stage, sensor, snapshot>>

\* C18: every value in the latest-state map was projected from a snapshot and
\* then went through its sensor's filter chain; a filtered sample of a
\* high-frequency sensor is handed to the aggregator only, a filtered sample of
\* any other sensor is written into the latest-state map only.
C18_FilteredThenRouted ==
    /\ \A sensor \in DOMAIN telemetry_state :
         LET entry == telemetry_state[sensor] IN
         /\ sensor \notin high_freq_sensors
         /\ entry.value.filtered_by = filters[sensor]
         /\ Before("project", "filter", sensor, entry.timestamp)
         /\ Before("filter", "direct", sensor, entry.timestamp)
    /\ \A k \in 1..Len(add_calls) :
         LET data == add_calls[k] IN
         /\ data.sensor_name \in high_freq_sensors
         /\ data.value.filtered_by = filters[data.sensor_name]
    /\ \A k \in 1..Len(pipeline) :
         LET stage == pipeline[k][1]
             sensor == pipeline[k][2]
             snapshot == pipeline[k][3]
         IN  /\ stage = "aggregator" =>
                  /\ sensor \in high_freq_sensors
                  /\ Before("project", "filter", sensor, snapshot)
                  /\ Before("filter", "aggregator", sensor, snapshot)
                  /\ ~Went("direct", sensor, snapshot)
             /\ stage = "direct" =>
                  /\ sensor \notin high_freq_sensors
                  /\ Before("project", "filter", sensor, snapshot)
                  /\ Before("filter", "direct", sensor, snapshot)
                  /\ ~Went("aggregator", sensor, snapshot)

\* C18 witness: of one snapshot, the sample of a sensor with a Kalman filter is
\* in the latest-state map and the sample of a high-frequency sensor has been
\* handed to the aggregator.
C18_BothRoutesWitness ==
    /\ add_calls # <<>>
    /\ \E sensor \in DOMAIN telemetry_state :
         /\ filters[sensor] = 1
         /\ telemetry_state[sensor].timestamp = add_calls[1].timestamp

\* the samples of C19: window 100 ms and (0.00, 1), (0.04, 3), (0.09, 5),
\* (0.11, 7) of one sensor
ExampleFed ==
    /\ window_duration_ms = 100
    /\ adds = 4
    /\ last_add.sample = Sample(110, "depth", 7)
    /\ last_add.before = <<Sample(0, "depth", 1), Sample(40, "depth", 3),
                           Sample(90, "depth", 5)>>

\* C19 (as claimed): an add that finds the window elapsed emits the mean of the
\* samples buffered before it, stamped with the sample's timestamp, and leaves
\* the buffer empty and last_emit at that timestamp; any other add appends the
\* sample; in the example the 4th add emits mean 3.0 at 0.11.
C19_TriggerNotInMean ==
    LET data == last_add.sample
        result == emitted[Len(emitted)]
    IN  /\ last_add.emitted =>
             /\ result.count = Len(last_add.before)
             /\ result.total = SumValues(last_add.before)
             /\ result.timestamp = data.timestamp
             /\ buffers[data.sensor_id] = <<>>
             /\ last_emit[data.sensor_id] = data.timestamp
        /\ (adds > 0 /\ ~last_add.emitted) =>
             buffers[data.sensor_id] = Append(last_add.before, data)
        /\ ExampleFed =>
             /\ Len(emitted) = 1
             /\ result.total = 3 * result.count
             /\ result.timestamp = 110

\* what add() does instead: the sample that finds the window elapsed is part of
\* the result; in the example the 4th add emits the mean of 4 samples, 4.0
TriggerInMean ==
    LET data == last_add.sample
        result == emitted[Len(emitted)]
    IN  /\ last_add.emitted =>
             /\ result.count = Len(last_add.before) + 1
             /\ result.total = SumValues(last_add.before) + data.value
             /\ result.timestamp = data.timestamp
             /\ buffers[data.sensor_id] = <<>>
             /\ last_emit[data.sensor_id] = data.timestamp
        /\ (adds > 0 /\ ~last_add.emitted) =>
             buffers[data.sensor_id] = Append(last_add.before, data)
        /\ ExampleFed =>
             /\ Len(emitted) = 1
             /\ result.count = 4
             /\ result.total = 4 * result.count
             /\ result.timestamp = 110

\* the smallest whole number that is at least a / b
Ceil(a, b) == (a + b - 1) \div b

\* the results emitted with a timestamp from one time to another
EmittedBetween(from, to) ==
    Cardinality({k \in 1..Len(emitted) :
                    from <= emitted[k].timestamp /\ emitted[k].timestamp <= to})

InvalidCalls ==
    {i \in 1..Len(publish_calls) : ~PacketValid(publish_calls[i].packet)}

\* C22: every packet given to the broker client is valid against the schema;
\* every publish() with an invalid packet logged one validation error and sent
\* nothing; the failure does not end the publish loop.
C22_InvalidNeverSent ==
    /\ \A i \in 1..Len(handed_to_broker) : PacketValid(handed_to_broker[i])
    /\ validation_logged = Cardinality(InvalidCalls)
    /\ Len(handed_to_broker) + validation_logged = Len(publish_calls)
    /\ tp_running => pp_pc # "exited"

\* C22 witness: publish() was called with an invalid packet, logged the error,
\* sent nothing, and the publish loop is at its loop test again.
C22_InvalidLoggedWitness ==
    /\ Len(publish_calls) = 1
    /\ InvalidCalls = {1}
    /\ validation_logged = 1
    /\ handed_to_broker = <<>>
    /\ tp_running
    /\ pp_pc = "loop_test"

\* C23 (as claimed): a packet has a structured zero with the key's unit for
\* every key the latest-state map had no entry for; a packet for which only
\* depth was missing is valid, and publish was called once per iteration and
\* gave that packet to the broker client.
C23_MissingKeysZeroed ==
    /\ \A key \in pp_missing : pp_packet[key] = StructuredZero(SchemaUnit(key))
    /\ \A i \in 1..Len(publish_calls) :
         LET call == publish_calls[i] IN
         /\ \A key \in call.missing :
               call.packet[key] = StructuredZero(SchemaUnit(key))
         /\ call.missing = {"depth"} =>
               /\ PacketValid(call.packet)
               /\ \E j \in 1..Len(handed_to_broker) :
                     handed_to_broker[j] = call.packet
    /\ Len(publish_calls) <= ticks

\* what holds of _assemble_packet instead: depth is defaulted to the structured
\* zero with unit "m", cardinal_direction to the empty string; with only depth
\* missing the packet is valid and is given to the broker client
DepthZeroed ==
    /\ \A i \in 1..Len(publish_calls) :
         LET call == publish_calls[i] IN
         /\ "depth" \in call.missing =>
               call.packet["depth"] = StructuredZero("m")
         /\ "cardinal_direction" \in call.missing =>
               call.packet["cardinal_direction"] = EmptyString
         /\ call.missing = {"depth"} =>
               /\ PacketValid(call.packet)
               /\ \E j \in 1..Len(handed_to_broker) :
                     handed_to_broker[j] = call.packet
    /\ Len(publish_calls) <= ticks

\* _assemble_packet has read some keys of the latest-state map and has more to
\* read
PublisherReading == pp_pc = "assemble" /\ pp_read > 0

\* the receiver thread is in _on_telemetry_received, writing the properties of
\* a snapshot into the latest-state map
ReceiverWriting == tp_pc # "idle"

\* C24 (as claimed): the publisher never reads the latest-state map while a
\* write by the receiver thread is in progress.
C24_NoReadDuringWrite == ~(PublisherReading /\ ReceiverWriting)

\* the properties present in a snapshot the processor has finished handling
HandledFields ==
    IF tp_pc = "idle"
    THEN UNION {tp_fields[i] : i \in 1..Len(tp_fields)}
    ELSE UNION {tp_fields[i] : i \in 1..(Len(tp_fields) - 1)}

\* C25 (as claimed): once the processor has handled a snapshot in which a
\* property of the schema is present, the latest-state map has an entry for
\* that property, high-frequency sensor or not.
C25_EveryFieldStored ==
    \A prop_name \in HandledFields : prop_name \in DOMAIN telemetry_state

\* what holds instead: with no high-frequency sensor and no filter configured
\* every property of a handled snapshot has its entry
UnroutedFieldsStored ==
    (high_freq_sensors = {} /\ \A sensor \in Sensors : filters[sensor] = 0) =>
        \A prop_name \in HandledFields : prop_name \in DOMAIN telemetry_state

\* start() has returned at line 208: the broker session was not there after
\* the connect attempt and the second of grace
StartupAborted == main_pc = "exited" /\ ~handler_installed

\* C26 (as claimed): when the broker session is not established at startup the
\* receiver and the publish loop are never started and the process ends with
\* exit code 1; exit code 0 is reached only by a shutdown after a signal.
C26_AbortExitsWithError ==
    /\ StartupAborted =>
          /\ ~receiver_running
          /\ pp_pc = "not_started"
          /\ exit_code = ExitError
    /\ exit_code = ExitOk => signal_received

\* what holds instead: the aborted startup has started neither the receiver nor
\* the publish loop, and the process ends with exit code 0, as it does after a
\* signal
AbortExitsOk ==
    /\ StartupAborted =>
          /\ ~receiver_running
          /\ pp_pc = "not_started"
          /\ ~signal_received
          /\ exit_code = ExitOk
    /\ (main_pc = "exited" /\ ~StartupAborted) =>
          /\ signal_received
          /\ exit_code = ExitOk
    /\ exit_code # ExitError

(***************************************************************************)
(* MPEGTSClient.decode_frames: properties.                                 *)
(***************************************************************************)

\* C27 (as claimed): a read of some but fewer than frame-size bytes is one
\* frame error and the loop goes on with the same connection; a read of zero
\* bytes ends the connection at once, whatever the number of frame errors.
C27_ZeroReadEndsConnection ==
    [][RxReadFrame =>
         /\ last_read' = "partial" =>
               /\ frame_errors' = frame_errors + 1
               /\ frame_errors' < max_frame_errors => rx_pc' = "decode_test"
         /\ last_read' = "zero" => rx_pc' = "reset"]_vars

\* what holds instead: a read of zero bytes is one frame error like a read of
\* some bytes, and the loop goes on unless it was the max_frame_errors-th
ZeroReadIsFrameError ==
    [][RxReadFrame =>
         (last_read' \in {"partial", "zero"} =>
               /\ frame_errors' = frame_errors + 1
               /\ rx_pc' = IF frame_errors' < max_frame_errors
                           THEN "decode_test" ELSE "reset")]_vars

\* C28 (as claimed): the decode loop gives the connection up exactly when
\* max_frame_errors frame errors have come in a row; a run of fewer errors
\* leaves it in the loop, and a parsed frame is enqueued, sets the error
\* counter to 0 and leaves it in the loop.
C28_GiveUpAtMaxErrors ==
    [][/\ (RxReadFrame \/ RxParse) =>
             /\ rx_pc' = "reset" => frame_errors' = max_frame_errors
             /\ (frame_errors' = frame_errors + 1
                    /\ frame_errors' < max_frame_errors) => rx_pc' = "decode_test"
       /\ RxCountFrame =>
             /\ frame_errors' = 0
             /\ rx_pc' = "decode_test"]_vars

\* what holds instead: the loop is left at the max_frame_errors-th error and
\* not by fewer, and it is left with an exception by the first parsed frame,
\* the error counter as it was
GiveUpAtMaxErrorsOrFrame ==
    [][/\ (RxReadFrame \/ RxParse) =>
             /\ rx_pc' = "reset" => frame_errors' = max_frame_errors
             /\ (frame_errors' = frame_errors + 1
                    /\ frame_errors' < max_frame_errors) => rx_pc' = "decode_test"
       /\ RxCountFrame =>
             /\ frame_errors' = frame_errors
             /\ rx_pc' = "except"]_vars

(***************************************************************************)
(* MPEGTSServer._write_frames: properties.                                 *)
(***************************************************************************)

\* the items of a sequence
Items(seq) == {seq[i] : i \in 1..Len(seq)}

\* no item comes twice in the sequence
NoRepeat(seq) == \A i, j \in 1..Len(seq) : seq[i] = seq[j] => i = j

\* the writer holds a frame it has dequeued and not yet written or dropped
FrameInHand == w_pc \in {"check_stdin", "select", "write"}

C30_StopClosesStdinFirst ==
    [][(ServerStop /\ encoder_ffmpeg_process # NoProcess) =>
          /\ encoder_procs'[encoder_ffmpeg_process].stdin_closed
          /\ encoder_procs'[encoder_ffmpeg_process].alive =
                encoder_procs[encoder_ffmpeg_process].alive]_vars

\* what holds instead: stop() leaves the encoder process as it was, its stdin
\* open
StopLeavesChildAlone ==
    [][ServerStop => encoder_procs' = encoder_procs]_vars

(***************************************************************************)
(* TimeWindowAggregator.flush: properties.                                 *)
(***************************************************************************)

\* the sensors flush(sensor_id) or flush() finds with a non-empty buffer
Flushable(flush) ==
    {sensor \in DOMAIN flush.buffers :
        /\ flush.buffers[sensor] # <<>>
        /\ flush.sensor_id \in {sensor, AllSensors}}

\* the results the latest flush emitted
FlushResults == SubSeq(emitted, last_flush.emitted + 1, Len(emitted))

\* the latest call on the aggregator was a flush
JustFlushed == flushes > 0 /\ last_flush.adds = adds

RECURSIVE CountEmitted(_, _)
\* the sum of count over the results emitted for a sensor
CountEmitted(sensor, results) ==
    IF results = <<>> THEN 0
    ELSE (IF Head(results).sensor_id = sensor THEN Head(results).count ELSE 0)
         + CountEmitted(sensor, Tail(results))

\* the number of samples a sensor has buffered
Buffered(sensor) == IF sensor \in DOMAIN buffers THEN Len(buffers[sensor]) ELSE 0

\* the number of samples added for a sensor
Added(sensor) == IF sensor \in DOMAIN added THEN added[sensor] ELSE 0

\* C40: every added sample is counted in one emitted result or is still in its
\* sensor's buffer; after a flush() that follows the adds every buffer is
\* empty, so that for each sensor the counts of its results add up to the
\* number of samples added for it.
C40_EverySampleCountedOnce ==
    /\ \A sensor \in Sensors :
          CountEmitted(sensor, emitted) + Buffered(sensor) = Added(sensor)
    /\ (JustFlushed /\ last_flush.sensor_id = AllSensors) =>
          \A sensor \in Sensors :
             /\ Buffered(sensor) = 0
             /\ CountEmitted(sensor, emitted) = Added(sensor)

\* C40 witness: both sensors had samples added, some results were emitted by
\* add and some by the final flush(), which found samples buffered.
C40_AddsThenFlushWitness ==
    /\ JustFlushed
    /\ last_flush.sensor_id = AllSensors
    /\ adds = MaxFlushAdds
    /\ \A sensor \in Sensors : Added(sensor) >= 1
    /\ last_flush.emitted >= 1
    /\ Len(emitted) > last_flush.emitted
    /\ \E sensor \in Sensors : CountEmitted(sensor, emitted) >= 3

(***************************************************************************)
(* TelemetryProcessor._publish_loop and _cleanup: properties.              *)
(***************************************************************************)

\* the latest iteration of the publish loop is past its stale check
TickChecked == ticks > 0 /\ pp_pc # "stale_check"

\* the latest iteration of the publish loop is over
TickOver == ticks > 0 /\ pp_pc \in {"loop_test", "exited"}

\* C32: an iteration of the publish loop that finds more than 3 s passed since
\* the last receipt assembles no packet and calls publish() not at all; any
\* other iteration assembles one packet from the latest-state map and calls
\* publish() with it exactly once.
C32_StaleTickSkipped ==
    TickChecked =>
       IF last_tick.age > StaleAfterS
       THEN /\ TickOver
            /\ Len(publish_calls) = last_tick.calls
       ELSE /\ ~TickOver => Len(publish_calls) = last_tick.calls
            /\ TickOver =>
                  /\ Len(publish_calls) = last_tick.calls + 1
                  /\ publish_calls[Len(publish_calls)].packet = pp_packet
                  /\ \A i \in 1..Len(PacketKeyOrder) :
                        PacketKeyOrder[i] \in DOMAIN pp_packet

\* C32 witness: a snapshot was received and handled, more than 3 s passed, and
\* the iteration of the publish loop that followed made no publish() call.
C32_StaleSkipWitness ==
    /\ snapshots >= 1
    /\ DOMAIN telemetry_state = Sensors
    /\ TickOver
    /\ last_tick.age = StaleAfterS + 1
    /\ publish_calls = <<>>
    /\ tp_running

(***************************************************************************)
(* TelemetryProcessor: shutdown.                                           *)
(***************************************************************************)

\* the main thread is in publish_thread.join(), line 241
Joining == main_pc = "join"

\* C33: on every path to the join the running flag is false when the publish
\* thread is joined, the aggregator has been flushed, the receiver and the
\* broker client have been stopped, and the join returns: the publish thread
\* ends and start returns
C33_StopThenJoin ==
    /\ [](Joining => /\ ~tp_running
                     /\ flushes = 1
                     /\ ~receiver_running
                     /\ ~loop_started)
    /\ Joining ~> (main_pc = "exited" /\ pp_pc = "exited")

\* the join waits for a publish thread that is in the middle of an iteration
C33_JoinWaitsWitness ==
    /\ Joining
    /\ signal_received
    /\ pp_pc = "publish"
    /\ flushes = 1

\* the main thread has returned from publisher.disconnect(), line 237
ClientStopped == main_pc \in {"stop_publish", "join", "exited"}

\* the publish calls that reached client.publish after the client's loop had
\* been stopped and the client disconnected
PublishesOnStoppedClient ==
    {i \in 1..Len(publish_calls) :
        /\ publish_calls[i].client_stopped
        /\ PacketValid(publish_calls[i].packet)}

\* the aggregator's half of C38: once the shutdown has flushed the aggregator
\* its buffers are empty and stay empty
BuffersEmptyAfterFlush ==
    ClientStopped => \A sensor \in DOMAIN buffers : buffers[sensor] = <<>>

\* C38: no publish reaches the broker client after it has been stopped and
\* disconnected, and the aggregator's buffers get no sample after the flush
\* of the shutdown
C38_ProducersStopFirst ==
    /\ PublishesOnStoppedClient = {}
    /\ ClientStopped => \A sensor \in DOMAIN buffers : buffers[sensor] = <<>>

(***************************************************************************)
(* MPEGTSClient: the locals of the receive loop.                           *)
(***************************************************************************)

\* the receive loop is at the top of its try block, line 234: a connection
\* attempt starts
AttemptStarts == rx_pc = "get_socket"

\* C36: base_delay <= current_delay <= max_delay in every state of the receive
\* loop, and every connection attempt starts with
\* 0 <= consecutive_failures < max_consecutive_failures
C36_DelayAndFailuresBounded ==
    /\ base_delay_ms <= max_delay_ms /\ max_consecutive_failures >= 1
    /\ base_delay_ms <= current_delay
    /\ current_delay <= max_delay_ms
    /\ AttemptStarts => /\ 0 <= consecutive_failures
                        /\ consecutive_failures < max_consecutive_failures

\* after a failure the doubled delay has been cut to a max_delay below
\* 2 * base_delay
C36_CappedDelayWitness ==
    /\ rx_pc = "cleanup_lock"
    /\ consecutive_failures = 1
    /\ 2 * base_delay_ms > max_delay_ms
    /\ current_delay = max_delay_ms
    /\ sleeps # <<>>

\* the receive thread is at the with self.lock of _cleanup_after_stream
TeardownWaits == rx_pc = "cleanup_lock"

\* C34: whenever the receive loop tries to take the lock to tear the decoder
\* down it eventually has it, also when the forwarder is blocked in a write
\* while it holds the lock
C34_TeardownGetsLock == TeardownWaits ~> (rx_pc = "cleanup_call")

\* as long as no write of the forwarder is blocked the teardown gets the lock
TeardownGetsLockUnlessBlocked ==
    TeardownWaits ~> (rx_pc = "cleanup_call" \/ fwd_pc = "write_blocked")

\* the forwarder holds the lock and has read self.decoder_ffmpeg_process,
\* line 70 or line 100: the process whose stdin it writes to, or closes
InHand == IF fwd_pc \in {"write", "write_blocked", "fin_close"}
          THEN decoder_ffmpeg_process ELSE NoProcess

\* C35: the process whose stdin a forwarder writes to or closes is the decoder
\* process that forwarder was started with
C35_ForwarderKeepsItsDecoder == InHand # NoProcess => InHand = fwd_proc

\* within one call of start() the forwarder's process is the one it was
\* started with
KeepsItsDecoderUntilRestart ==
    (restarts = 0 /\ InHand # NoProcess) => InHand = fwd_proc

(***************************************************************************)
(* WebSocketBroadcaster: the order of the chunks.                          *)
(***************************************************************************)

\* the chunks are numbered in the order of the broadcast() calls: the
\* messages are in that order, none twice
InCallOrder(messages) ==
    \A k, l \in 1..Len(messages) : k < l => messages[k] < messages[l]

\* C37: every client that is still connected has received the chunks in the
\* order of the broadcast() calls, each at most once
C37_ChunksInCallOrder ==
    \A c \in clients : ~closed[c] => InCallOrder(received[c])

\* no client receives a chunk twice
NoChunkTwice == \A c \in Clients : NoRepeat(received[c])

\* the records all of whose bytes recv has returned
RecordsRead ==
    {n \in 1..RecordsSent :
        \A i \in 1..Len(wire) : wire[i].rec = n => i <= wire_read}

\* the records 1, 2, ... up to the last one read, in sending order
InSendingOrder == [k \in 1..Cardinality(RecordsRead) |-> k]

\* C39: once the receive loop has processed what recv returned, the callback
\* has been called exactly once, in sending order, with every record whose
\* bytes have all been read, however recv split the stream
C39_EveryRecordDelivered ==
    rcv_pc = "recv" => delivered = InSendingOrder

\* the callback is never called with a record twice or with a later record
\* before an earlier one
DeliveredInOrder == InCallOrder(delivered)

\* when every recv has returned exactly one whole record, every record read
\* has been delivered
WholeRecordsDelivered ==
    (whole_records /\ rcv_pc = "recv") => delivered = InSendingOrder

\* one record was sent and read in two recv calls, both have been processed,
\* and the callback was not called
SplitRecordDropped ==
    /\ rcv_pc = "recv"
    /\ RecordsSent = 1
    /\ wire_read = Len(wire)
    /\ rcv_incomplete + rcv_skipped = 2
    /\ delivered = <<>>

====
